---- MODULE Spec2Model ----
(***************************************************************************)
(* ClipDeck: a session adapter (ClipDeck_CS/clipdeck_cs.py, class ClipDeck) *)
(* that mirrors an 8 x 4 window of a Live session onto a button grid, and   *)
(* the hardware-side process (clipdeck.py) that renders the window and      *)
(* watches the session's heartbeat.                                         *)
(*                                                                          *)
(* cs    the ClipDeck control-surface object (its fields)                   *)
(* song  the session host's state as the read API shows it                  *)
(* deck_state, display  the hardware side's record of its window and the    *)
(*       images on its keys                                                 *)
(* current_config, poll, timers, hw_out  the hardware side's settings, the  *)
(*       key poller's memory, its pending threading.Timer objects and the   *)
(*       messages its last step sent                                        *)
(* stray_states  the records deck_states holds for orders without a unit    *)
(* unit_brightness  the brightness each active unit was last set to, in     *)
(*       per cent                                                           *)
(* link  the two processes as far as they have started, the datagrams in    *)
(*       flight between them, the position of the _request_config thread    *)
(*       and the hardware side's debug_mode                                 *)
(* wait  a call of _wait_for_live: its retry_count, where it stands, the     *)
(*       number of calls of _can_proceed so far and the last one's result  *)
(* handlers  the threads of the session side under way, statement by       *)
(*       statement: the /config handlers of the threading listener with    *)
(*       their locals, and a call of _prepare_and_send_clip_info           *)
(* Time is counted in periods of the liveness monitor (0.5 s) where the     *)
(* monitor runs (SpecHw) and in tenths of a second where keys are polled    *)
(* (SpecDeck, SpecKeys, SpecMenu).                                          *)
(***************************************************************************)
EXTENDS Integers, Sequences, FiniteSets, TLC

VARIABLES cs, song, threads, last, hist,
          deck_state, display, now, next_check, hw_last, last_msg, transitions,
          current_config, poll, timers, hw_out, stray_states, key_hist,
          unit_brightness, link, wait, handlers

sessVars == <<cs, song, threads, last, hist>>
keyVars == <<current_config, poll, timers, hw_out, stray_states, key_hist,
             unit_brightness, link, wait, handlers>>
hwVars == <<deck_state, display, now, next_check, hw_last, last_msg, transitions,
            current_config, poll, timers, hw_out, stray_states, key_hist,
            unit_brightness, link, wait, handlers>>
vars == <<cs, song, threads, last, hist,
          deck_state, display, now, next_check, hw_last, last_msg, transitions,
          current_config, poll, timers, hw_out, stray_states, key_hist,
          unit_brightness, link, wait, handlers>>

(***************************************************************************)
(* Program constants                                                        *)
(***************************************************************************)
NumTracks == 8
NumScenes == 4
FastStep == 4
ProgressSteps == 16
DEFAULT_DISPLAY_ORDER == 0
NonExistentColor == 3276800
KeyCount == 32
OFFLINE_TIMEOUT == 4
MonitorPeriod == 1
\* In tenths of a second:
FLASH_DURATION == 2
LONG_PRESS_DURATION == 5
StopTimePlaying == 40
StopTimeIdle == 5
KEY_BURGER == 31
KEY_BRIGHTNESS == 23
KEY_ARROW_RIGHT == 30
KEY_ARROW_DOWN == 29
KEY_ARROW_UP == 21
KEY_ARROW_LEFT == 28
BrightnessLevels == 11
DefaultBrightness == 3
MinBrightness == 1
MaxBrightness == 10

(***************************************************************************)
(* Bounds of the model                                                      *)
(***************************************************************************)
ExtraTracks == 1
ExtraScenes == 1
MaxSongSeed == 3
MaxLen == 8
StartTime == 1
MaxTime == 9
MaxDeckTime == 4
MaxInbound == 2
MaxPolls == 4
MaxBrightPolls == 5

Max(a, b) == IF a >= b THEN a ELSE b
Min(a, b) == IF a <= b THEN a ELSE b

MaxTracks == NumTracks + ExtraTracks
MaxScenes == NumScenes + ExtraScenes

\* The offsets a config carries, and the largest offset the window can reach.
CfgOffsets == {0, NumTracks}
MaxHOffset == Max(NumTracks, MaxTracks - NumTracks)

(***************************************************************************)
(* The session host (Live): tracks x scenes clip slots                      *)
(***************************************************************************)
NoClip == [has_clip |-> FALSE, is_playing |-> FALSE, is_triggered |-> FALSE,
           name |-> " ", color |-> 0, playing_position |-> 0, length |-> 1]

Clip(playing, triggered, color, pos, len) ==
    [has_clip |-> TRUE, is_playing |-> playing, is_triggered |-> triggered,
     name |-> "clip", color |-> color, playing_position |-> pos, length |-> len]

\* A family of sessions: in session k, track t launches at most one clip, the
\* one of scene (t + k) % MaxScenes; the other slots hold stopped clips or
\* nothing.
DemoSlot(k, t, s) ==
    LET active == s = (t + k) % MaxScenes
        kind == (t + 2 * k) % 4
        pos == ((5 * t + 7 * k) % 24) - 4
        len == 4 + 4 * ((t + k) % 4)
    IN  IF active /\ kind # 0
        THEN Clip(kind >= 2, kind # 2, t + 1, pos, len)
        ELSE IF (2 * t + s + k) % 3 # 0
             THEN Clip(FALSE, FALSE, t + 1, 0, len)
             ELSE NoClip

\* The session of the spec's scenario: one clip, playing, in slot (track 2,
\* scene 1), at position pos of length len.
ScenarioSlot(pos, len, t, s) ==
    IF t = 2 /\ s = 1 THEN Clip(TRUE, FALSE, 1, pos, len) ELSE NoClip

\* song.clips names the content of the session: a session of the family
\* (seed k) or the scenario's session.
DemoSong(k) == [family |-> "demo", k |-> k, pos |-> 0, len |-> 1]
ScenarioSong(pos, len) == [family |-> "scenario", k |-> 0, pos |-> pos, len |-> len]

\* song.tracks[t].clip_slots[s]
ClipSlot(sg, t, s) ==
    IF sg.clips.family = "demo"
    THEN DemoSlot(sg.clips.k, t, s)
    ELSE ScenarioSlot(sg.clips.pos, sg.clips.len, t, s)

\* any(slot.has_clip and (slot.clip.is_playing or slot.clip.is_triggered)
\*     for slot in track.clip_slots)
TrackIsPlaying(sg, t) ==
    \E s \in 0 .. sg.scenes - 1 :
        LET slot == ClipSlot(sg, t, s)
        IN  slot.has_clip /\ (slot.is_playing \/ slot.is_triggered)

(***************************************************************************)
(* Messages of the session side: address and positional arguments           *)
(***************************************************************************)
Msg(type, a, b, cells) ==
    [type |-> type, order |-> DEFAULT_DISPLAY_ORDER, a |-> a, b |-> b, cells |-> cells]

OscSend(c, m) == [c EXCEPT !.osc_out = Append(@, m)]

BoolInt(x) == IF x THEN 1 ELSE 0

\* _send_message for the dict-shaped notifications and for the clip list.
SendMessage(c, type, a, b, cells) ==
    IF type \in {"/ablonline", "/structural_mismatch", "/document_closing",
                 "/track_stopped", "/clip_info"}
    THEN OscSend(c, Msg(type, a, b, cells))
    ELSE c

(***************************************************************************)
(* Snapshot of the window                                                   *)
(***************************************************************************)
\* int(): truncation toward zero of n / d, d > 0.
TruncDiv(n, d) == IF n >= 0 THEN n \div d ELSE -((-n) \div d)

\* Variant: the progress step counted from 0, without the final + 1.
ProgressValFromZero(pos, len) ==
    Max(0, Min(TruncDiv(pos * ProgressSteps, len), ProgressSteps - 1))

\* progress_val = max(0, min(int(raw_progress * 16), 15)) + 1
ProgressVal(pos, len) ==
    Max(0, Min(TruncDiv(pos * ProgressSteps, len), ProgressSteps - 1)) + 1

CellOf(label, color, code) == [label |-> label, color |-> color, code |-> code]

\* track_is_playing: for each column of the window, whether its track holds
\* a playing or triggered clip (False for a column without a track).
TrackIsPlayingTable(w, sg) ==
    [track_index \in 0 .. NumTracks - 1 |->
        LET actual_track_idx == w.h_offset + track_index
        IN  IF actual_track_idx < sg.tracks
            THEN TrackIsPlaying(sg, actual_track_idx)
            ELSE FALSE]

\* Variant: a slot's triggered flag is looked at before its playing flag.
ClipInfoCellTriggeredFirst(w, sg, track_is_playing, scene_index, track_index) ==
    LET actual_track_idx == w.h_offset + track_index
        actual_scene_idx == w.v_offset + scene_index
    IN  IF actual_track_idx >= sg.tracks \/ actual_scene_idx >= sg.scenes
        THEN CellOf("X", NonExistentColor, -4)
        ELSE LET clip == ClipSlot(sg, actual_track_idx, actual_scene_idx)
             IN  IF clip.has_clip
                 THEN IF clip.is_triggered
                      THEN CellOf(clip.name, clip.color, -1)
                      ELSE IF clip.is_playing
                           THEN CellOf(clip.name, clip.color,
                                       ProgressVal(clip.playing_position, clip.length))
                           ELSE IF track_is_playing[track_index]
                                THEN CellOf(clip.name, clip.color, -2)
                                ELSE CellOf(clip.name, clip.color, -3)
                 ELSE IF ~track_is_playing[track_index]
                      THEN CellOf(" ", 0, -3)
                      ELSE CellOf(" ", 0, -2)

\* One cell of the snapshot, for window row scene_index and column
\* track_index of the window w = [h_offset, v_offset].
ClipInfoCell(w, sg, track_is_playing, scene_index, track_index) ==
    LET actual_track_idx == w.h_offset + track_index
        actual_scene_idx == w.v_offset + scene_index
    IN  IF actual_track_idx >= sg.tracks \/ actual_scene_idx >= sg.scenes
        THEN CellOf("X", NonExistentColor, -4)
        ELSE LET clip == ClipSlot(sg, actual_track_idx, actual_scene_idx)
             IN  IF clip.has_clip
                 THEN IF clip.is_playing
                      THEN CellOf(clip.name, clip.color,
                                  ProgressVal(clip.playing_position, clip.length))
                      ELSE IF clip.is_triggered
                           THEN CellOf(clip.name, clip.color, -1)
                           ELSE IF track_is_playing[track_index]
                                THEN CellOf(clip.name, clip.color, -2)
                                ELSE CellOf(clip.name, clip.color, -3)
                 ELSE IF ~track_is_playing[track_index]
                      THEN CellOf(" ", 0, -3)
                      ELSE CellOf(" ", 0, -2)

\* The list clip_info: scene outer, track inner (cell i is at index i + 1).
ClipInfoList(w, sg) ==
    LET track_is_playing == TrackIsPlayingTable(w, sg)
    IN  [i \in 1 .. NumScenes * NumTracks |->
            ClipInfoCell(w, sg, track_is_playing,
                         (i - 1) \div NumTracks, (i - 1) % NumTracks)]

\* The windows, the sessions of the family, and those of them whose track
\* and scene counts the host moves between.
DemoWindows == [h_offset : 0 .. MaxHOffset, v_offset : 0 .. MaxScenes - NumScenes]
DemoSongs ==
    [tracks : 1 .. MaxTracks, scenes : 1 .. MaxScenes,
     clips : {DemoSong(k) : k \in 0 .. MaxSongSeed}]
SessionSongs ==
    [tracks : {NumTracks - 1, NumTracks, MaxTracks},
     scenes : {NumScenes - 1, NumScenes, MaxScenes},
     clips : {DemoSong(0)}]

\* ClipInfoList is a pure function of the window and of the session; its
\* values for the sessions the host moves between are tabulated once.
ClipInfoTable ==
    CHOOSE f \in {[w \in DemoWindows, sg \in SessionSongs |-> ClipInfoList(w, sg)]} : f = f

ClipInfo(c, sg) ==
    IF sg \in SessionSongs
    THEN ClipInfoTable[[h_offset |-> c.h_offset, v_offset |-> c.v_offset], sg]
    ELSE ClipInfoList([h_offset |-> c.h_offset, v_offset |-> c.v_offset], sg)

\* Variant: the snapshot is sent whether or not the window has a track.
PrepareAndSendClipInfoUnguarded(c, sg) ==
    IF ~c.config_received
    THEN c
    ELSE SendMessage(c, "/clip_info", c.h_offset, c.v_offset, ClipInfo(c, sg))

\* _prepare_and_send_clip_info: the two guards, then the list.
PrepareAndSendClipInfo(c, sg) ==
    IF ~c.config_received
    THEN c
    ELSE IF c.h_offset >= sg.tracks
         THEN c
         ELSE SendMessage(c, "/clip_info", c.h_offset, c.v_offset, ClipInfo(c, sg))

(***************************************************************************)
(* Structural validation                                                    *)
(***************************************************************************)
\* Variant: the notification follows the condition, not its changes.
CheckStructuralValidityLevel(c, sg) ==
    IF c.h_offset >= sg.tracks
    THEN SendMessage([c EXCEPT !.structural_mismatch = TRUE],
                     "/structural_mismatch", 1, 0, <<>>)
    ELSE SendMessage([c EXCEPT !.structural_mismatch = FALSE],
                     "/structural_mismatch", 0, 0, <<>>)

\* The state after _check_structural_validity; its return value is
\* StructurallyValid of that state.
CheckStructuralValidity(c, sg) ==
    IF c.h_offset >= sg.tracks
    THEN IF ~c.structural_mismatch
         THEN SendMessage([c EXCEPT !.structural_mismatch = TRUE],
                          "/structural_mismatch", 1, 0, <<>>)
         ELSE c
    ELSE IF c.structural_mismatch
         THEN SendMessage([c EXCEPT !.structural_mismatch = FALSE],
                          "/structural_mismatch", 0, 0, <<>>)
         ELSE c

StructurallyValid(c, sg) == ~(c.h_offset >= sg.tracks)

\* The offset listener the session ring calls from set_offsets.
OnOffsetChanged(c, sg) ==
    PrepareAndSendClipInfo(CheckStructuralValidity(c, sg), sg)

\* _session_ring.set_offsets(h, v) followed by the two _last_applied stores.
ApplyOffsets(c, sg) ==
    LET r == OnOffsetChanged(c, sg)
    IN  [r EXCEPT !.last_applied_h_offset = r.h_offset,
                  !.last_applied_v_offset = r.v_offset]

(***************************************************************************)
(* /scroll                                                                  *)
(***************************************************************************)
\* The argument of /scroll is a text, here its tokens: <<"up">>,
\* <<"up", "-fast">>.  endswith('-fast') and replace('-fast', '').
ScrollDirection(arg) ==
    IF Len(arg) > 0 /\ arg[Len(arg)] = "-fast"
    THEN SelectSeq(arg, LAMBDA x : x # "-fast")
    ELSE arg

ScrollStep(arg) ==
    IF Len(arg) > 0 /\ arg[Len(arg)] = "-fast" THEN FastStep ELSE 1

\* Variant: right and down add the step without the upper clamp.
ScrollOffsetsUnclamped(c, sg, arg) ==
    LET direction == ScrollDirection(arg)
        step == ScrollStep(arg)
    IN  IF direction = <<"up">>
        THEN [c EXCEPT !.v_offset = Max(0, c.v_offset - step)]
        ELSE IF direction = <<"down">>
        THEN [c EXCEPT !.v_offset = c.v_offset + step]
        ELSE IF direction = <<"left">>
        THEN [c EXCEPT !.h_offset = Max(0, c.h_offset - step)]
        ELSE IF direction = <<"right">>
        THEN [c EXCEPT !.h_offset = c.h_offset + step]
        ELSE IF direction = <<"reset">>
        THEN [c EXCEPT !.h_offset = c.initial_h_offset]
        ELSE c

\* Variant: reset returns to the origin of both axes.
ScrollOffsetsResetOrigin(c, sg, arg) ==
    LET direction == ScrollDirection(arg)
        step == ScrollStep(arg)
    IN  IF direction = <<"up">>
        THEN [c EXCEPT !.v_offset = Max(0, c.v_offset - step)]
        ELSE IF direction = <<"down">>
        THEN LET max_offset == Max(0, sg.scenes - NumScenes)
             IN  [c EXCEPT !.v_offset = Min(max_offset, c.v_offset + step)]
        ELSE IF direction = <<"left">>
        THEN [c EXCEPT !.h_offset = Max(0, c.h_offset - step)]
        ELSE IF direction = <<"right">>
        THEN LET max_h_offset == Max(0, sg.tracks - NumTracks)
             IN  [c EXCEPT !.h_offset = Min(max_h_offset, c.h_offset + step)]
        ELSE IF direction = <<"reset">>
        THEN [c EXCEPT !.h_offset = 0, !.v_offset = 0]
        ELSE c

\* The offsets after the if/elif chain of _handle_scroll.
ScrollOffsets(c, sg, arg) ==
    LET direction == ScrollDirection(arg)
        step == ScrollStep(arg)
    IN  IF direction = <<"up">>
        THEN [c EXCEPT !.v_offset = Max(0, c.v_offset - step)]
        ELSE IF direction = <<"down">>
        THEN LET max_offset == Max(0, sg.scenes - NumScenes)
             IN  [c EXCEPT !.v_offset = Min(max_offset, c.v_offset + step)]
        ELSE IF direction = <<"left">>
        THEN [c EXCEPT !.h_offset = Max(0, c.h_offset - step)]
        ELSE IF direction = <<"right">>
        THEN LET max_h_offset == Max(0, sg.tracks - NumTracks)
             IN  [c EXCEPT !.h_offset = Min(max_h_offset, c.h_offset + step)]
        ELSE IF direction = <<"reset">>
        THEN [c EXCEPT !.h_offset = c.initial_h_offset]
        ELSE c

\* Variant: set_offsets is called whether or not the offsets changed.
HandleScrollAlways(c, sg, arg) == ApplyOffsets(ScrollOffsets(c, sg, arg), sg)

HandleScroll(c, sg, arg) ==
    LET moved == ScrollOffsets(c, sg, arg)
    IN  IF moved.h_offset # c.h_offset \/ moved.v_offset # c.v_offset
        THEN ApplyOffsets(moved, sg)
        ELSE moved

(***************************************************************************)
(* /config, /trigger_clip, /refresh, /pyonline                              *)
(***************************************************************************)
\* Variant: every accepted config assigns the offset it carries.
HandleConfigEveryTime(c, sg, args) ==
    IF Len(args) >= 2 /\ args[1] = DEFAULT_DISPLAY_ORDER
    THEN LET c1 == [c EXCEPT !.h_offset = args[2], !.initial_h_offset = args[2],
                             !.config_received = TRUE,
                             !.debug_mode = IF Len(args) >= 3 THEN args[3] # 0 ELSE FALSE]
             c2 == IF c1.h_offset # c1.last_applied_h_offset
                      \/ c1.v_offset # c1.last_applied_v_offset
                   THEN PrepareAndSendClipInfo(ApplyOffsets(c1, sg), sg)
                   ELSE c1
         IN  OscSend(c2, Msg("/ablonline", 0, 0, <<>>))
    ELSE c

\* Variant: a handler that takes no /config for its own.
HandleConfigDeaf(c, sg, args) == c

\* _osc_config_handler: args = <<display_order, h_offset>> or
\* <<display_order, h_offset, debug_mode>>.
HandleConfig(c, sg, args) ==
    IF Len(args) >= 2
    THEN LET display_order == args[1]
             h_offset == args[2]
             debug_mode == IF Len(args) >= 3 THEN args[3] # 0 ELSE FALSE
         IN  IF display_order = DEFAULT_DISPLAY_ORDER
             THEN LET first_config == ~c.config_received
                      c1 == IF first_config
                            THEN [c EXCEPT !.h_offset = h_offset,
                                           !.initial_h_offset = h_offset]
                            ELSE c
                      c2 == [c1 EXCEPT !.config_received = TRUE,
                                       !.debug_mode = debug_mode]
                      c3 == IF first_config
                               /\ (c2.h_offset # c2.last_applied_h_offset
                                   \/ c2.v_offset # c2.last_applied_v_offset)
                            THEN PrepareAndSendClipInfo(ApplyOffsets(c2, sg), sg)
                            ELSE c2
                  IN  OscSend(c3, Msg("/ablonline", 0, 0, <<>>))
             ELSE c
    ELSE c

\* Whether HandleConfig reaches set_offsets, and with it the validity check.
ConfigAppliesOffsets(c, args) ==
    /\ Len(args) >= 2
    /\ args[1] = DEFAULT_DISPLAY_ORDER
    /\ ~c.config_received
    /\ (args[2] # c.last_applied_h_offset \/ c.v_offset # c.last_applied_v_offset)

HostCall(c, call, t, s) ==
    [c EXCEPT !.host_out = Append(@, [call |-> call, track |-> t, scene |-> s])]

TriggerInRange(c, sg, track_offset, scene_offset) ==
    LET track_index == c.h_offset + track_offset
        scene_index == c.v_offset + scene_offset
    IN  0 <= track_index /\ track_index < sg.tracks
        /\ 0 <= scene_index /\ scene_index < sg.scenes

\* Variant: the flag of /track_stopped is taken after the clips were stopped.
HandleTriggerClipLateFlag(c, sg, track_offset, scene_offset) ==
    LET track_index == c.h_offset + track_offset
        scene_index == c.v_offset + scene_offset
    IN  IF TriggerInRange(c, sg, track_offset, scene_offset)
        THEN LET c1 == IF ClipSlot(sg, track_index, scene_index).has_clip
                       THEN HostCall(c, "fire", track_index, scene_index)
                       ELSE SendMessage(
                                HostCall(c, "stop_all_clips", track_index, 0),
                                "/track_stopped", track_offset, 0, <<>>)
                 c2 == CheckStructuralValidity(c1, sg)
             IN  IF StructurallyValid(c2, sg)
                 THEN PrepareAndSendClipInfo(c2, sg)
                 ELSE c2
        ELSE c

\* _handle_trigger_clip; clip_slot.fire() and track.stop_all_clips() are
\* calls into the session host.
HandleTriggerClip(c, sg, track_offset, scene_offset) ==
    LET track_index == c.h_offset + track_offset
        scene_index == c.v_offset + scene_offset
    IN  IF TriggerInRange(c, sg, track_offset, scene_offset)
        THEN LET c1 == IF ClipSlot(sg, track_index, scene_index).has_clip
                       THEN HostCall(c, "fire", track_index, scene_index)
                       ELSE SendMessage(
                                HostCall(c, "stop_all_clips", track_index, 0),
                                "/track_stopped", track_offset,
                                BoolInt(TrackIsPlaying(sg, track_index)), <<>>)
                 c2 == CheckStructuralValidity(c1, sg)
             IN  IF StructurallyValid(c2, sg)
                 THEN PrepareAndSendClipInfo(c2, sg)
                 ELSE c2
        ELSE c

\* _osc_refresh_handler: args = <<>> or <<display_order>>.
HandleRefresh(c, sg, args) ==
    LET display_order == IF Len(args) > 0 THEN args[1] ELSE DEFAULT_DISPLAY_ORDER
    IN  IF display_order = DEFAULT_DISPLAY_ORDER
        THEN OscSend(PrepareAndSendClipInfo(c, sg), Msg("/ablonline", 0, 0, <<>>))
        ELSE c

HandlePyonline(c) == OscSend(c, Msg("/ablonline", 0, 0, <<>>))

\* One round of the _send_ablonline loop.
AnnounceOnce(c, is_playing) ==
    IF ~is_playing
    THEN c
    ELSE LET c1 == SendMessage(c, "/ablonline", 0, 0, <<>>)
         IN  IF c1.structural_mismatch
             THEN SendMessage(c1, "/structural_mismatch", 1, 0, <<>>)
             ELSE c1

\* _on_document_changed up to the start of the delayed_reinit thread.
OnDocumentChanged(c) ==
    [SendMessage(c, "/document_closing", 0, 0, <<>>)
        EXCEPT !.song_loaded = FALSE, !.initialized = FALSE]

\* Variant: a reload also returns the window to its configured column.
ReinitializeHome(c) ==
    [c EXCEPT !.initialized = TRUE, !.song_loaded = TRUE,
              !.h_offset = c.initial_h_offset, !.v_offset = 0]

\* _reinitialize, run by the delayed_reinit thread.
Reinitialize(c) == [c EXCEPT !.initialized = TRUE, !.song_loaded = TRUE]

(***************************************************************************)
(* State of the session side                                                *)
(***************************************************************************)
Orders == {DEFAULT_DISPLAY_ORDER, DEFAULT_DISPLAY_ORDER + 1}
\* Sessions narrower than the window, as wide, and wider.
TrackCounts == {sg.tracks : sg \in SessionSongs}
SceneCounts == {sg.scenes : sg \in SessionSongs}
Directions == {"up", "down", "left", "right", "reset"}
ScrollArgs == {<<d>> : d \in Directions} \cup {<<d, "-fast">> : d \in Directions}
ConfigArgs == {<<o, h>> : o \in Orders, h \in CfgOffsets}
                 \cup {<<DEFAULT_DISPLAY_ORDER, h, 0>> : h \in CfgOffsets}
TriggerTracks == {0, NumTracks - 1}
TriggerScenes == {0, NumScenes - 1}

\* ClipDeck.__init__
InitCS ==
    [h_offset |-> 0, v_offset |-> 0, initial_h_offset |-> 0,
     config_received |-> FALSE, debug_mode |-> FALSE,
     structural_mismatch |-> FALSE,
     last_applied_h_offset |-> -1, last_applied_v_offset |-> -1,
     initialized |-> TRUE, song_loaded |-> TRUE,
     osc_out |-> <<>>, host_out |-> <<>>]

\* A handler starts with nothing sent yet.
Begin(c) == [c EXCEPT !.osc_out = <<>>, !.host_out = <<>>]

NoCheck == [called |-> FALSE, prev |-> FALSE, invalid |-> FALSE, ret |-> FALSE]

\* The record of a call of _check_structural_validity made by a handler
\* that leaves the session side in state c.
CheckCall(c, sg) ==
    [called |-> TRUE, prev |-> hist.prev_check, invalid |-> c.h_offset >= sg.tracks,
     ret |-> StructurallyValid(c, sg)]

Op(op, arg, check) == [op |-> op, arg |-> arg, check |-> check]

\* A /config the session side accepts: two arguments or more, for its order.
Accepted(args) == Len(args) >= 2 /\ args[1] = DEFAULT_DISPLAY_ORDER

\* What has happened so far: the condition at the last validity check,
\* whether a /config was accepted, and the offset the first one carried.
InitHist == [prev_check |-> FALSE, accepted |-> FALSE, first_offset |-> 0]

NextHist(op) ==
    [prev_check |-> IF op.check.called THEN op.check.invalid ELSE hist.prev_check,
     accepted |-> hist.accepted \/ (op.op = "config" /\ Accepted(op.arg)),
     first_offset |-> IF op.op = "config" /\ Accepted(op.arg) /\ ~hist.accepted
                      THEN op.arg[2] ELSE hist.first_offset]

(***************************************************************************)
(* The hardware side: one configured window                                 *)
(***************************************************************************)
Keys == 0 .. KeyCount - 1
Black == <<0, 0, 0>>
NoState == <<>>

None == <<>>
Some(v) == <<v>>
Red == <<255, 0, 0>>
FLASH_COLOR == <<170, 170, 170>>
SCROLL_NONE == "none"
SCROLL_VERTICAL == "vertical"
SCROLL_BOTH == "both"
SCROLL_BOTH_RESET == "both-reset"
\* The scroll_mode of a call of update_key_image that names none.
NoScrollMode == ""
MenuKeys == {KEY_ARROW_UP, KEY_ARROW_DOWN, KEY_ARROW_LEFT, KEY_ARROW_RIGHT, KEY_BRIGHTNESS}

\* adjust_color(color, 1, brightness), brightness in tenths; the rounding of
\* the colour-space round trip is left out.
AdjustColor(color, brightness) ==
    <<(color[1] * brightness) \div 10, (color[2] * brightness) \div 10,
      (color[3] * brightness) \div 10>>

\* The icon render_key_image lays over a key.
Overlay(key, scroll_mode, menu_active) ==
    IF scroll_mode = SCROLL_VERTICAL
    THEN IF key = 30 THEN "up" ELSE IF key = 31 THEN "down" ELSE "none"
    ELSE IF scroll_mode \in {SCROLL_BOTH, SCROLL_BOTH_RESET}
    THEN IF key = KEY_BURGER THEN "burger"
         ELSE IF ~menu_active THEN "none"
         ELSE IF key = KEY_ARROW_UP THEN "up"
         ELSE IF key = KEY_ARROW_DOWN THEN "down"
         ELSE IF key = KEY_ARROW_LEFT
         THEN IF scroll_mode = SCROLL_BOTH_RESET THEN "reset" ELSE "left"
         ELSE IF key = KEY_ARROW_RIGHT THEN "right"
         ELSE IF key = KEY_BRIGHTNESS THEN "brightness"
         ELSE "none"
    ELSE "none"

\* render_key_image: what a key shows.  progress is None, Some of a negative
\* whole number, or Some of a non-negative number of sixteenths;
\* background_color is None or a colour; stopped_keys is {} where the caller
\* passes none.
RenderKeyImage(label_text, color, progress, background_color, stopped_keys, key, flash, scroll_mode, menu_active) ==
    IF flash
    THEN [label_text |-> "", color |-> FLASH_COLOR, progress |-> None,
          background_color |-> FLASH_COLOR, overlay |-> "none", flash |-> TRUE]
    ELSE [label_text |-> label_text, color |-> color, progress |-> progress,
          background_color |->
              IF progress = Some(-2)
              THEN IF key \in stopped_keys THEN Red ELSE Black
              ELSE IF progress # None /\ progress[1] >= 0
                                      /\ progress[1] <= ProgressSteps
              THEN AdjustColor(color, 2)
              ELSE IF background_color = None THEN Black
              ELSE background_color,
          overlay |-> Overlay(key, scroll_mode, menu_active),
          flash |-> FALSE]

\* The image update_key_image puts on a key when the call names no key
\* state: no stopped keys, no scroll mode, no menu.
Image(label_text, color, progress, background_color) ==
    RenderKeyImage(label_text, color, progress, background_color, {}, 0, FALSE,
                   NoScrollMode, FALSE)

BlankImage == Image("", Black, None, None)
FlashImage == RenderKeyImage("", Black, None, None, {}, 0, TRUE, NoScrollMode, FALSE)

AbletonColorToRgb(color_value) ==
    <<(color_value \div 65536) % 256, (color_value \div 256) % 256, color_value % 256>>

\* DeckManager.init_cs_state; a time stamp of 0 stands for "no message yet".
InitDeckState ==
    [key_states |-> [k \in Keys |-> NoState],
     stopped_keys |-> {},
     last_ablonline |-> 0,
     waiting_cleared |-> FALSE,
     structural_mismatch |-> FALSE,
     pressed_keys |-> {},
     flash_until |-> [k \in Keys |-> 0],
     menu_active |-> FALSE,
     ableton_offline |-> TRUE]

\* The keys after the start of the main program: all blank, key 0 waiting.
InitDisplay ==
    [k \in Keys |->
        IF k = 0 THEN Image("Waiting for Ableton", <<255, 255, 255>>, None, None)
        ELSE BlankImage]

\* The image the handlers render from a cache entry (name, colour, code) for
\* key: the code's sixteenths as a fraction (0 as a full circle), -1 as it
\* is, -3 as -2 on a red background, anything else as -2.
ClipImage(entry, key, stopped_keys, scroll_mode, menu_active) ==
    LET clip_name == entry[1]
        rgba_color == AbletonColorToRgb(entry[2])
        clip_progress_value == entry[3]
    IN  IF clip_progress_value >= 0
        THEN RenderKeyImage(clip_name, rgba_color,
                            Some(IF clip_progress_value = 0 THEN ProgressSteps
                                 ELSE clip_progress_value),
                            None, stopped_keys, key, FALSE, scroll_mode, menu_active)
        ELSE IF clip_progress_value = -1
        THEN RenderKeyImage(clip_name, rgba_color, Some(-1), None, stopped_keys,
                            key, FALSE, scroll_mode, menu_active)
        ELSE IF clip_progress_value = -3
        THEN RenderKeyImage(clip_name, rgba_color, Some(-2), Red, stopped_keys,
                            key, FALSE, scroll_mode, menu_active)
        ELSE RenderKeyImage(clip_name, rgba_color, Some(-2), None, stopped_keys,
                            key, FALSE, scroll_mode, menu_active)

\* Whether the handler leaves the image of key i alone for now.
KeyIsFlashing(state, t, i) ==
    i \in state.pressed_keys \/ (state.flash_until[i] # 0 /\ t < state.flash_until[i])

\* A cell that does not split into three parts at '|', or whose colour or
\* code is not a number: what the handler's len(parts) test or its
\* except ValueError catches.
MalformedCell == [parts |-> 1]
Parses(info) == "parts" \notin DOMAIN info

\* osc_clip_info_handler at time t: r = [state, display]; clip_data is the
\* list of cells, each one name|color|code.  A cell that does not parse is
\* passed over and the loop goes on with the next one.  The handler passes
\* stopped_keys on only where the progress is a fraction, which
\* render_key_image draws without looking at them.
OscClipInfoHandler(r, t, clip_data) ==
    LET s1 == [r.state EXCEPT
                  !.last_ablonline = t,
                  !.ableton_offline = FALSE,
                  !.waiting_cleared = IF r.state.ableton_offline THEN TRUE ELSE @]
        new_state(i) == <<clip_data[i + 1].label, clip_data[i + 1].color,
                          clip_data[i + 1].code>>
        parsed(i) == i < Len(clip_data) /\ Parses(clip_data[i + 1])
        fresh(i) == parsed(i) /\ s1.key_states[i] # new_state(i)
    IN  [state |-> [s1 EXCEPT !.key_states =
                        [i \in Keys |-> IF parsed(i) THEN new_state(i)
                                        ELSE s1.key_states[i]]],
         display |-> [i \in Keys |->
                        IF fresh(i) /\ ~KeyIsFlashing(s1, t, i)
                        THEN ClipImage(new_state(i), i, {}, current_config.scroll_mode,
                                       s1.menu_active)
                        ELSE r.display[i]]]

\* osc_ablonline_handler
OscAblonlineHandler(r, t) ==
    LET s1 == [r.state EXCEPT !.last_ablonline = t, !.ableton_offline = FALSE]
    IN  IF ~s1.waiting_cleared
        THEN [state |-> [s1 EXCEPT !.waiting_cleared = TRUE],
              display |-> [r.display EXCEPT ![0] = BlankImage]]
        ELSE [state |-> s1, display |-> r.display]

\* osc_structural_mismatch_handler
OscStructuralMismatchHandler(r, show) ==
    [state |-> [r.state EXCEPT !.structural_mismatch = show,
                               !.waiting_cleared = show],
     display |-> [r.display EXCEPT ![0] =
                     IF show THEN Image("Wrong Channel Number", <<255, 125, 0>>,
                                        None, None)
                     ELSE BlankImage]]

\* osc_document_closing_handler
OscDocumentClosingHandler(r) ==
    [state |-> [r.state EXCEPT !.key_states = [k \in Keys |-> NoState],
                               !.last_ablonline = 0,
                               !.waiting_cleared = FALSE],
     display |-> [k \in Keys |-> BlankImage]]

\* Whether a round of monitor_loop at time t takes the window offline.
TimedOut(state, t) ==
    /\ state.last_ablonline > 0 /\ (t - state.last_ablonline) > OFFLINE_TIMEOUT
    /\ ~state.ableton_offline

\* A round of monitor_loop that forgets the cache when it blanks the keys.
MonitorRoundForgetting(r, t) ==
    IF TimedOut(r.state, t)
    THEN [state |-> [r.state EXCEPT !.ableton_offline = TRUE,
                                    !.waiting_cleared = FALSE,
                                    !.key_states = [k \in Keys |-> NoState]],
          display |-> [k \in Keys |->
                          IF k = 0 THEN Image("Ableton Offline", <<255, 80, 0>>,
                                              None, None)
                          ELSE BlankImage]]
    ELSE r

\* One round of monitor_loop for the window, at time t.
MonitorRound(r, t) ==
    IF TimedOut(r.state, t)
    THEN [state |-> [r.state EXCEPT !.ableton_offline = TRUE,
                                    !.waiting_cleared = FALSE],
          display |-> [k \in Keys |->
                          IF k = 0 THEN Image("Ableton Offline", <<255, 80, 0>>,
                                              None, None)
                          ELSE BlankImage]]
    ELSE r

(***************************************************************************)
(* The hardware side: keys, timers and the menu.  A world w holds the       *)
(* window's record and images together with the pending timers, the        *)
(* messages sent, current_config and the memory of poll_keys.              *)
(***************************************************************************)
\* send_osc_message(display_order, address, *args)
HwMsg(address, args) ==
    [order |-> DEFAULT_DISPLAY_ORDER, address |-> address, args |-> args]

\* A threading.Timer that has been started: when it is due and what its
\* lambda captured.
Timer(kind, due, key, label_text, color, progress) ==
    [kind |-> kind, due |-> due, key |-> key, label_text |-> label_text,
     color |-> color, progress |-> progress]

World(state, disp, tms, out, config, memory, units) ==
    [state |-> state, display |-> disp, timers |-> tms, out |-> out,
     current_config |-> config, poll |-> memory, units |-> units]

\* set_brightness on every active unit, as poll_keys calls it.
SetBrightness(units, brightness) ==
    IF 0 <= brightness /\ brightness <= 10
    THEN [order \in DOMAIN units |-> brightness * 10]
    ELSE units

\* A number the cache holds, as render_key_image takes it when it is passed
\* on unscaled: a whole number of full circles.
RawProgress(progress) ==
    Some(IF progress >= 0 THEN progress * ProgressSteps ELSE progress)

StoppedKeysOf(track_index) == {scene_index * 8 + track_index : scene_index \in 0 .. 3}

\* osc_track_stopped_handler at time t, for the configured order.
OscTrackStoppedHandler(w, t, track_index, was_playing) ==
    LET display_time == IF was_playing THEN StopTimePlaying ELSE StopTimeIdle
        cached(key) == key \in Keys /\ w.state.key_states[key] # NoState
        label_text(key) == IF cached(key) THEN w.state.key_states[key][1] ELSE ""
        color(key) == IF cached(key) THEN AbletonColorToRgb(w.state.key_states[key][2])
                      ELSE Black
        progress(key) == IF cached(key) THEN RawProgress(w.state.key_states[key][3])
                         ELSE None
        stopped_keys == w.state.stopped_keys \cup StoppedKeysOf(track_index)
    IN  [w EXCEPT
            !.state = [@ EXCEPT !.stopped_keys = stopped_keys],
            !.display = [key \in Keys |->
                IF key \in StoppedKeysOf(track_index)
                THEN RenderKeyImage(label_text(key), color(key), progress(key), Red,
                                    stopped_keys, key, FALSE, NoScrollMode, FALSE)
                ELSE @[key]],
            !.timers = @ \o [scene_index \in 1 .. 4 |->
                LET key == (scene_index - 1) * 8 + track_index
                IN  Timer("stop", t + display_time, key, label_text(key), color(key),
                          progress(key))]]

\* restore_key_image
RestoreKeyImage(w, key, menu_active) ==
    [w EXCEPT !.display[key] =
        IF w.state.key_states[key] # NoState
        THEN ClipImage(w.state.key_states[key], key, w.state.stopped_keys,
                       w.current_config.scroll_mode, menu_active)
        ELSE RenderKeyImage("", Black, None, None, {}, key, FALSE,
                            w.current_config.scroll_mode, menu_active)]

\* show_menu_arrows
ShowMenuArrows(w, show) ==
    [w EXCEPT !.display = [key \in Keys |->
        IF key \in MenuKeys THEN RestoreKeyImage(w, key, show).display[key]
        ELSE @[key]]]

\* The lambda of timer tm runs.
RunTimer(w, tm) ==
    IF tm.kind = "stop"
    THEN LET stopped_keys == w.state.stopped_keys \ {tm.key}
         IN  [w EXCEPT
                 !.state = [@ EXCEPT !.stopped_keys = stopped_keys],
                 !.display = [key \in Keys |->
                     IF key = tm.key
                     THEN RenderKeyImage(tm.label_text, tm.color, tm.progress, None,
                                         stopped_keys, key, FALSE, NoScrollMode, FALSE)
                     ELSE @[key]]]
    ELSE LET w1 == [w EXCEPT !.state = [@ EXCEPT !.flash_until[tm.key] = 0]]
         IN  RestoreKeyImage(w1, tm.key, w1.state.menu_active)

\* on_key_change with arrows that scroll whether or not the menu is open.
OnKeyChangeMenuless(w, key) ==
    LET scroll_mode == w.current_config.scroll_mode
        scroll(dir) == <<HwMsg("/scroll", <<dir>>)>>
    IN  IF scroll_mode = SCROLL_VERTICAL /\ key = 30 THEN scroll("up")
        ELSE IF scroll_mode = SCROLL_VERTICAL /\ key = 31 THEN scroll("down")
        ELSE IF scroll_mode = SCROLL_VERTICAL
        THEN <<HwMsg("/trigger_clip", <<key % 8, key \div 8>>)>>
        ELSE IF key = KEY_ARROW_UP THEN scroll("up")
        ELSE IF key = KEY_ARROW_DOWN THEN scroll("down")
        ELSE IF key = KEY_ARROW_LEFT
        THEN scroll(IF scroll_mode = SCROLL_BOTH_RESET THEN "reset" ELSE "left")
        ELSE IF key = KEY_ARROW_RIGHT THEN scroll("right")
        ELSE IF key \in {KEY_BURGER, KEY_BRIGHTNESS} THEN <<>>
        ELSE <<HwMsg("/trigger_clip", <<key % 8, key \div 8>>)>>

\* on_key_change that numbers the keys down the columns.
OnKeyChangeTransposed(w, key) ==
    LET scroll_mode == w.current_config.scroll_mode
        scroll(dir) == <<HwMsg("/scroll", <<dir>>)>>
    IN  IF scroll_mode = SCROLL_VERTICAL /\ key = 30 THEN scroll("up")
        ELSE IF scroll_mode = SCROLL_VERTICAL /\ key = 31 THEN scroll("down")
        ELSE IF scroll_mode \in {SCROLL_BOTH, SCROLL_BOTH_RESET}
                /\ w.state.menu_active /\ key = KEY_ARROW_UP THEN scroll("up")
        ELSE IF scroll_mode \in {SCROLL_BOTH, SCROLL_BOTH_RESET}
                /\ w.state.menu_active /\ key = KEY_ARROW_DOWN THEN scroll("down")
        ELSE IF scroll_mode \in {SCROLL_BOTH, SCROLL_BOTH_RESET}
                /\ w.state.menu_active /\ key = KEY_ARROW_LEFT
        THEN scroll(IF scroll_mode = SCROLL_BOTH_RESET THEN "reset" ELSE "left")
        ELSE IF scroll_mode \in {SCROLL_BOTH, SCROLL_BOTH_RESET}
                /\ w.state.menu_active /\ key = KEY_ARROW_RIGHT THEN scroll("right")
        ELSE IF scroll_mode \in {SCROLL_BOTH, SCROLL_BOTH_RESET}
                /\ key \in {KEY_BURGER, KEY_BRIGHTNESS} THEN <<>>
        ELSE <<HwMsg("/trigger_clip", <<key \div 4, key % 4>>)>>

\* on_key_change: the message a pressed key sends, if any.
OnKeyChange(w, key) ==
    LET scroll_mode == w.current_config.scroll_mode
        scroll(dir) == <<HwMsg("/scroll", <<dir>>)>>
    IN  IF scroll_mode = SCROLL_VERTICAL /\ key = 30 THEN scroll("up")
        ELSE IF scroll_mode = SCROLL_VERTICAL /\ key = 31 THEN scroll("down")
        ELSE IF scroll_mode \in {SCROLL_BOTH, SCROLL_BOTH_RESET}
                /\ w.state.menu_active /\ key = KEY_ARROW_UP THEN scroll("up")
        ELSE IF scroll_mode \in {SCROLL_BOTH, SCROLL_BOTH_RESET}
                /\ w.state.menu_active /\ key = KEY_ARROW_DOWN THEN scroll("down")
        ELSE IF scroll_mode \in {SCROLL_BOTH, SCROLL_BOTH_RESET}
                /\ w.state.menu_active /\ key = KEY_ARROW_LEFT
        THEN scroll(IF scroll_mode = SCROLL_BOTH_RESET THEN "reset" ELSE "left")
        ELSE IF scroll_mode \in {SCROLL_BOTH, SCROLL_BOTH_RESET}
                /\ w.state.menu_active /\ key = KEY_ARROW_RIGHT THEN scroll("right")
        ELSE IF scroll_mode \in {SCROLL_BOTH, SCROLL_BOTH_RESET}
                /\ key \in {KEY_BURGER, KEY_BRIGHTNESS} THEN <<>>
        ELSE <<HwMsg("/trigger_clip", <<key % 8, key \div 8>>)>>

\* poll_keys with a burger key that opens the menu and never closes it.
PollBurgerLatching(w, current_key_states) ==
    LET burger_pressed == KEY_BURGER \in current_key_states
        burger_was_pressed == KEY_BURGER \in w.poll.previous_key_states
    IN  IF burger_pressed /\ ~burger_was_pressed
        THEN ShowMenuArrows([w EXCEPT !.state = [@ EXCEPT !.menu_active = TRUE]], TRUE)
        ELSE w

\* poll_keys, the burger key: an edge switches the menu and redraws its keys.
PollBurger(w, current_key_states) ==
    LET burger_pressed == KEY_BURGER \in current_key_states
        burger_was_pressed == KEY_BURGER \in w.poll.previous_key_states
    IN  IF burger_pressed /\ ~burger_was_pressed
        THEN ShowMenuArrows([w EXCEPT !.state = [@ EXCEPT !.menu_active = TRUE]], TRUE)
        ELSE IF ~burger_pressed /\ burger_was_pressed
        THEN ShowMenuArrows([w EXCEPT !.state = [@ EXCEPT !.menu_active = FALSE]], FALSE)
        ELSE w

\* poll_keys with a brightness key that cycles when it goes down.
PollBrightnessAtPress(w, t, current_key_states) ==
    LET brightness_pressed == KEY_BRIGHTNESS \in current_key_states
        brightness_was_pressed == KEY_BRIGHTNESS \in w.poll.previous_key_states
        actual_brightness == (w.current_config.current_brightness + 1) % BrightnessLevels
    IN  IF w.state.menu_active /\ brightness_pressed /\ ~brightness_was_pressed
        THEN [w EXCEPT
                 !.current_config = [@ EXCEPT !.current_brightness = actual_brightness],
                 !.units = SetBrightness(@, actual_brightness)]
        ELSE w

\* poll_keys with a long press that goes back to the default brightness.
PollBrightnessToDefault(w, t, current_key_states) ==
    LET brightness_pressed == KEY_BRIGHTNESS \in current_key_states
        brightness_was_pressed == KEY_BRIGHTNESS \in w.poll.previous_key_states
        start == w.poll.brightness_press_start
    IN  IF ~w.state.menu_active
        THEN [w EXCEPT !.poll = [@ EXCEPT !.brightness_press_start = None]]
        ELSE IF brightness_pressed /\ ~brightness_was_pressed
        THEN [w EXCEPT !.poll = [@ EXCEPT !.brightness_press_start = Some(t)]]
        ELSE IF ~brightness_pressed /\ brightness_was_pressed /\ start # None
        THEN LET actual_brightness ==
                     IF t - start[1] >= LONG_PRESS_DURATION
                     THEN DefaultBrightness
                     ELSE (w.current_config.current_brightness + 1) % BrightnessLevels
             IN
             [w EXCEPT
                 !.current_config = [@ EXCEPT !.current_brightness = actual_brightness],
                 !.units = SetBrightness(@, actual_brightness),
                 !.poll = [@ EXCEPT !.brightness_press_start = None]]
        ELSE w

\* poll_keys, the brightness key, at time t.
PollBrightness(w, t, current_key_states) ==
    LET brightness_pressed == KEY_BRIGHTNESS \in current_key_states
        brightness_was_pressed == KEY_BRIGHTNESS \in w.poll.previous_key_states
        start == w.poll.brightness_press_start
    IN  IF ~w.state.menu_active
        THEN [w EXCEPT !.poll = [@ EXCEPT !.brightness_press_start = None]]
        ELSE IF brightness_pressed /\ ~brightness_was_pressed
        THEN [w EXCEPT !.poll = [@ EXCEPT !.brightness_press_start = Some(t)]]
        ELSE IF ~brightness_pressed /\ brightness_was_pressed /\ start # None
        THEN LET actual_brightness ==
                     IF t - start[1] >= LONG_PRESS_DURATION
                     THEN w.current_config.brightness
                     ELSE (w.current_config.current_brightness + 1) % BrightnessLevels
             IN
             [w EXCEPT
                 !.current_config = [@ EXCEPT !.current_brightness = actual_brightness],
                 !.units = SetBrightness(@, actual_brightness),
                 !.display = [@ EXCEPT ![KEY_BRIGHTNESS] =
                     RenderKeyImage("", Black, None, None, {}, KEY_BRIGHTNESS, FALSE,
                                    w.current_config.scroll_mode, w.state.menu_active)],
                 !.poll = [@ EXCEPT !.brightness_press_start = None]]
        ELSE w

\* The keys of a set in the order the loop of poll_keys meets them.
RECURSIVE InKeyOrder(_)
InKeyOrder(keys) ==
    IF keys = {} THEN <<>>
    ELSE LET key == CHOOSE k \in keys : \A j \in keys : k <= j
         IN  <<key>> \o InKeyOrder(keys \ {key})

RECURSIVE Flatten(_)
Flatten(seqs) == IF seqs = <<>> THEN <<>> ELSE Head(seqs) \o Flatten(Tail(seqs))

\* poll_keys, the loop over the keys at time t: a press starts the flash and
\* reports the key; a release restores the image if the flash is over, leaves
\* that to a timer if it is not, and does nothing if the key has no flash
\* time.  The keys do not touch each other's entries, so the loop is taken
\* key by key.
PollKeyLoop(w, t, current_key_states) ==
    LET previous == w.poll.previous_key_states
        pressed == current_key_states \ previous
        released == previous \ current_key_states
        remaining(key) == w.state.flash_until[key] - t
        late == {key \in released : w.state.flash_until[key] # 0 /\ remaining(key) > 0}
        over == {key \in released : w.state.flash_until[key] # 0 /\ remaining(key) <= 0}
        order_late == InKeyOrder(late)
        order_pressed == InKeyOrder(pressed)
    IN  [w EXCEPT
            !.state = [@ EXCEPT
                !.pressed_keys = (@ \cup pressed) \ released,
                !.flash_until = [key \in Keys |->
                    IF key \in pressed THEN t + FLASH_DURATION
                    ELSE IF key \in over THEN 0
                    ELSE @[key]]],
            !.display = [key \in Keys |->
                IF key \in pressed THEN FlashImage
                ELSE IF key \in over
                THEN RestoreKeyImage(w, key, w.state.menu_active).display[key]
                ELSE @[key]],
            !.out = @ \o Flatten([i \in 1 .. Len(order_pressed) |->
                                     OnKeyChange(w, order_pressed[i])]),
            !.timers = @ \o [i \in 1 .. Len(order_late) |->
                Timer("flash", t + remaining(order_late[i]), order_late[i], "", Black,
                      None)]]

\* One round of poll_keys at time t, reading current_key_states from the unit.
PollKeys(w, t, current_key_states) ==
    LET w1 == IF w.current_config.scroll_mode \in {SCROLL_BOTH, SCROLL_BOTH_RESET}
              THEN PollBrightness(PollBurger(w, current_key_states), t,
                                  current_key_states)
              ELSE w
        w2 == PollKeyLoop(w1, t, current_key_states)
    IN  [w2 EXCEPT !.poll = [@ EXCEPT !.previous_key_states = current_key_states]]

\* The messages the press of key sends in a round of poll_keys: on_key_change
\* runs after the burger key was handled.
KeyCommands(w, current_key_states, key) ==
    OnKeyChange(IF w.current_config.scroll_mode \in {SCROLL_BOTH, SCROLL_BOTH_RESET}
                THEN PollBurger(w, current_key_states) ELSE w, key)

\* One round of poll_keys at time t in which the send of on_key_change for the
\* pressed key fail raises: the menu keys and the keys below fail were handled,
\* fail is in pressed_keys and flashes, its message is not sent, the keys
\* above it are not looked at, and the except clause skips the assignment of
\* previous_key_states.
PollKeysFailing(w, t, current_key_states, fail) ==
    LET previous == w.poll.previous_key_states
        seen == {key \in current_key_states : key < fail}
                  \cup {key \in previous : key >= fail}
        w1 == IF w.current_config.scroll_mode \in {SCROLL_BOTH, SCROLL_BOTH_RESET}
              THEN PollBrightness(PollBurger(w, current_key_states), t,
                                  current_key_states)
              ELSE w
        w2 == PollKeyLoop(w1, t, seen)
    IN  [w2 EXCEPT
            !.state = [@ EXCEPT
                !.pressed_keys = @ \cup {fail},
                !.flash_until = [@ EXCEPT ![fail] = t + FLASH_DURATION]],
            !.display = [@ EXCEPT ![fail] = FlashImage]]

\* The orders no unit is configured for, among those messages arrive for.
StrayOrders == {DEFAULT_DISPLAY_ORDER + 1}

\* The orders with a unit: the window followed here and a second unit, of
\* which only the brightness is followed.
ActiveOrders == {DEFAULT_DISPLAY_ORDER, DEFAULT_DISPLAY_ORDER + 2}
NoRecords == [o \in {} |-> InitDeckState]

\* current_config as load_config and main leave it, the memory of poll_keys
\* at its start, no timer pending, deck_states without stray records.
InitKeysWith(modes, levels) ==
    /\ \E scroll_mode \in modes, brightness \in levels :
          /\ current_config = [scroll_mode |-> scroll_mode, brightness |-> brightness,
                               current_brightness |-> brightness]
          /\ unit_brightness = SetBrightness([order \in ActiveOrders |-> 0], brightness)
    /\ poll = [previous_key_states |-> {}, brightness_press_start |-> None]
    /\ timers = <<>>
    /\ hw_out = <<>>
    /\ stray_states = NoRecords
    /\ key_hist = [press_time |-> [k \in Keys |-> 0], owed |-> <<>>,
                   inbound |-> 0, polls |-> 0, bright |-> None, changes |-> 0,
                   down |-> {}, commands |-> [k \in Keys |-> 0]]

\* Both processes up, nothing in flight, the request thread at its test.
InitLink(started, debug_modes) ==
    link \in [to_hw : {{}}, to_cs : {{}}, cs_started : {started}, hw_started : {started},
              running : {TRUE}, request : {"test"}, debug_mode : debug_modes]

\* No call of _wait_for_live under way.
InitWait == wait = [pc |-> "idle", retry_count |-> 0, checks |-> 0, ready |-> FALSE]

\* The /config handlers the listener may run at once in this development.
MaxConfigThreads == 2
ConfigThreads == 1 .. MaxConfigThreads

\* No handler thread and no snapshot under way.
InitHandlers ==
    handlers = [config |-> [t \in ConfigThreads |->
                              [pc |-> "idle", first_config |-> FALSE, h_offset |-> 0,
                               debug_mode |-> FALSE]],
                snap |-> [pc |-> "idle", track_index |-> 0, scene_index |-> 0,
                          actual_scene_idx |-> 0,
                          track_is_playing |-> <<>>, clip_info |-> <<>>],
                scrolls |-> 0,
                scrolled |-> FALSE]

InitKeys(modes) ==
    /\ InitKeysWith(modes, {DefaultBrightness})
    /\ InitLink(TRUE, {FALSE})
    /\ InitWait
    /\ InitHandlers

InitHw ==
    /\ InitKeys({SCROLL_VERTICAL})
    /\ deck_state = InitDeckState
    /\ display = InitDisplay
    /\ now = StartTime
    /\ next_check = StartTime + MonitorPeriod
    /\ hw_last = [op |-> "init", arg |-> <<>>, went_offline |-> FALSE]
    /\ last_msg = 0
    /\ transitions = 0

InitSession(songs, tracks, scenes) ==
    /\ cs = InitCS
    /\ song \in [tracks : tracks, scenes : scenes, clips : songs]
    /\ threads = [reinit |-> FALSE, refresh |-> FALSE]
    /\ last = Op("init", <<>>, NoCheck)
    /\ hist = InitHist

Init ==
    /\ InitSession({DemoSong(0)}, TrackCounts, SceneCounts)
    /\ InitHw

(***************************************************************************)
(* Steps of the session side                                                *)
(***************************************************************************)
Step(c, op) ==
    /\ cs' = c
    /\ last' = op
    /\ hist' = NextHist(op)
    /\ UNCHANGED hwVars

OscScroll ==
    \E arg \in ScrollArgs :
        LET c == HandleScroll(Begin(cs), song, arg)
            moved == c.h_offset # cs.h_offset \/ c.v_offset # cs.v_offset
        IN  /\ Step(c, Op("scroll", arg,
                         IF moved THEN CheckCall(c, song) ELSE NoCheck))
            /\ UNCHANGED <<song, threads>>

OscConfig ==
    \E args \in ConfigArgs :
        LET c == HandleConfig(Begin(cs), song, args)
        IN  /\ Step(c, Op("config", args,
                         IF ConfigAppliesOffsets(cs, args)
                         THEN CheckCall(c, song) ELSE NoCheck))
            /\ UNCHANGED <<song, threads>>

OscTriggerClip ==
    \E track_offset \in TriggerTracks, scene_offset \in TriggerScenes :
        LET c == HandleTriggerClip(Begin(cs), song, track_offset, scene_offset)
        IN  /\ Step(c, Op("trigger_clip", <<track_offset, scene_offset>>,
                         IF TriggerInRange(cs, song, track_offset, scene_offset)
                         THEN CheckCall(c, song) ELSE NoCheck))
            /\ UNCHANGED <<song, threads>>

OscRefresh ==
    \E args \in {<<>>} \cup {<<o>> : o \in Orders} :
        /\ Step(HandleRefresh(Begin(cs), song, args), Op("refresh", args, NoCheck))
        /\ UNCHANGED <<song, threads>>

OscPyonline ==
    /\ Step(HandlePyonline(Begin(cs)), Op("pyonline", <<>>, NoCheck))
    /\ UNCHANGED <<song, threads>>

\* One pass of the _poll_clips loop that reaches _prepare_and_send_clip_info.
PollClips ==
    /\ cs.initialized /\ cs.song_loaded
    /\ Step(PrepareAndSendClipInfo(Begin(cs), song), Op("poll_clips", <<>>, NoCheck))
    /\ UNCHANGED <<song, threads>>

\* One round of the announcer; the host is playing or paused.
SendAblonline ==
    \E is_playing \in BOOLEAN :
        /\ Step(AnnounceOnce(Begin(cs), is_playing),
                Op("send_ablonline", <<BoolInt(is_playing)>>, NoCheck))
        /\ UNCHANGED <<song, threads>>

\* The host changes the number of visible tracks and notifies the
\* visible-tracks listener, _on_document_changed.
TracksChanged ==
    \E n \in TrackCounts \ {song.tracks} :
        /\ song' = [song EXCEPT !.tracks = n]
        /\ threads' = [threads EXCEPT !.reinit = TRUE]
        /\ Step(OnDocumentChanged(Begin(cs)), Op("tracks_changed", <<n>>, NoCheck))

\* The delayed_reinit thread: _wait_for_live, then _reinitialize, which
\* starts the delayed_refresh thread.  threads tells whether such a thread
\* is pending; the threads of several changes in a row do the same steps.
DelayedReinit ==
    /\ threads.reinit
    /\ threads' = [reinit |-> FALSE, refresh |-> TRUE]
    /\ Step(Reinitialize(Begin(cs)), Op("reinitialize", <<>>, NoCheck))
    /\ UNCHANGED song

DelayedRefresh ==
    /\ threads.refresh
    /\ threads' = [threads EXCEPT !.refresh = FALSE]
    /\ Step(PrepareAndSendClipInfo(Begin(cs), song), Op("delayed_refresh", <<>>, NoCheck))
    /\ UNCHANGED song

\* The host changes the number of scenes and notifies the scenes listener,
\* _on_song_changed.
ScenesChanged ==
    \E n \in SceneCounts \ {song.scenes} :
        /\ song' = [song EXCEPT !.scenes = n]
        /\ Step(PrepareAndSendClipInfo(Begin(cs), song'), Op("scenes_changed", <<n>>, NoCheck))
        /\ UNCHANGED threads

Next ==
    \/ OscScroll
    \/ OscConfig
    \/ OscTriggerClip
    \/ OscRefresh
    \/ OscPyonline
    \/ PollClips
    \/ SendAblonline
    \/ TracksChanged
    \/ DelayedReinit
    \/ DelayedRefresh
    \/ ScenesChanged

Spec == Init /\ [][Next]_vars

(***************************************************************************)
(* The snapshot as a function of the window and of the session              *)
(***************************************************************************)
\* The session side after its handshake, with the window at w.
ConfiguredAt(w) ==
    [InitCS EXCEPT !.config_received = TRUE,
                   !.h_offset = w.h_offset, !.v_offset = w.v_offset,
                   !.last_applied_h_offset = w.h_offset,
                   !.last_applied_v_offset = w.v_offset]

InitConfigured(windows, songs) ==
    /\ cs \in {ConfiguredAt(w) : w \in windows}
    /\ song \in songs
    /\ threads = [reinit |-> FALSE, refresh |-> FALSE]
    /\ last = Op("init", <<>>, NoCheck)
    /\ hist = [InitHist EXCEPT !.accepted = TRUE]

\* Any window over any session of the family; the poller sends the snapshot.
InitSnap == InitConfigured(DemoWindows, DemoSongs) /\ InitHw
NextSnap == PollClips
SpecSnap == InitSnap /\ [][NextSnap]_vars

\* The scenario's session: 8 tracks, 4 scenes, the window at the origin, one
\* playing clip at position pos of length len.
ScenarioSongs ==
    [tracks : {NumTracks}, scenes : {NumScenes},
     clips : {ScenarioSong(pos, len) : pos \in (-MaxLen) .. (2 * MaxLen),
                                       len \in 1 .. MaxLen}]

InitProgress ==
    /\ InitConfigured({[h_offset |-> 0, v_offset |-> 0]}, ScenarioSongs)
    /\ InitHw
NextProgress == PollClips
SpecProgress == InitProgress /\ [][NextProgress]_vars

(***************************************************************************)
(* Steps of the hardware side                                               *)
(***************************************************************************)
\* The snapshots the session side sends the window in this specification.
HwSnapshots ==
    {ClipInfoList([h_offset |-> 0, v_offset |-> 0],
                  [tracks |-> NumTracks, scenes |-> NumScenes, clips |-> DemoSong(k)])
        : k \in {0, 1}}

\* An inbound message: the handler's result, and the time of its receipt.
Receive(r, op, arg) ==
    /\ deck_state' = r.state
    /\ display' = r.display
    /\ hw_last' = [op |-> op, arg |-> arg, went_offline |-> FALSE]
    /\ last_msg' = now
    /\ transitions' = 0
    /\ UNCHANGED <<now, next_check>>
    /\ UNCHANGED keyVars

Here == [state |-> deck_state, display |-> display]

RecvClipInfo ==
    \E clip_data \in HwSnapshots :
        /\ Receive(OscClipInfoHandler(Here, now, clip_data), "clip_info",
                   <<clip_data[1].code>>)
        /\ UNCHANGED sessVars

RecvAblonline ==
    /\ Receive(OscAblonlineHandler(Here, now), "ablonline", <<>>)
    /\ UNCHANGED sessVars

RecvStructuralMismatch ==
    \E show \in BOOLEAN :
        /\ Receive(OscStructuralMismatchHandler(Here, show), "structural_mismatch",
                   <<BoolInt(show)>>)
        /\ UNCHANGED sessVars

RecvDocumentClosing ==
    /\ Receive(OscDocumentClosingHandler(Here), "document_closing", <<>>)
    /\ UNCHANGED sessVars

\* A /clip_info one of whose cells does not parse.
MalformedKeys == {1}
MalformedSnapshots ==
    {[clip_data EXCEPT ![k + 1] = MalformedCell] :
        clip_data \in HwSnapshots, k \in MalformedKeys}

RecvMalformedClipInfo ==
    \E clip_data \in MalformedSnapshots :
        /\ Receive(OscClipInfoHandler(Here, now, clip_data), "malformed_clip_info",
                   <<clip_data[1].code>>)
        /\ UNCHANGED sessVars

\* A /clip_info without a cell, a /structural_mismatch without its flag, a
\* /track_stopped without its third argument: each handler returns at its
\* test of len(args).
TruncatedKinds == {"/clip_info", "/structural_mismatch", "/track_stopped"}
RecvTruncated ==
    \E address \in TruncatedKinds :
        /\ Receive(Here, "truncated", <<address>>)
        /\ UNCHANGED sessVars

\* osc_config_request_handler answers with /config; the window's record and
\* keys stay as they are.
RecvConfigRequest ==
    /\ Receive(Here, "config_request", <<>>)
    /\ UNCHANGED sessVars

\* monitor_loop: a round every MonitorPeriod.
MonitorTick ==
    /\ now = next_check
    /\ LET r == MonitorRound(Here, now)
       IN  /\ deck_state' = r.state
           /\ display' = r.display
           /\ hw_last' = [op |-> "monitor", arg |-> <<>>,
                          went_offline |-> TimedOut(deck_state, now)]
           /\ transitions' = transitions + BoolInt(TimedOut(deck_state, now))
    /\ next_check' = now + MonitorPeriod
    /\ UNCHANGED <<now, last_msg>>
    /\ UNCHANGED keyVars
    /\ UNCHANGED sessVars

\* Time passes; the monitor is not late for its round.
Tick ==
    /\ now < MaxTime
    /\ now < next_check
    /\ now' = now + 1
    /\ hw_last' = [op |-> "tick", arg |-> <<>>, went_offline |-> FALSE]
    /\ UNCHANGED <<deck_state, display, next_check, last_msg, transitions>>
    /\ UNCHANGED keyVars
    /\ UNCHANGED sessVars

InitHwSession ==
    /\ cs = InitCS
    /\ song = [tracks |-> NumTracks, scenes |-> NumScenes, clips |-> DemoSong(0)]
    /\ threads = [reinit |-> FALSE, refresh |-> FALSE]
    /\ last = Op("init", <<>>, NoCheck)
    /\ hist = InitHist

InitMonitor == InitHwSession /\ InitHw

NextHw ==
    \/ RecvClipInfo
    \/ RecvAblonline
    \/ RecvStructuralMismatch
    \/ RecvDocumentClosing
    \/ RecvConfigRequest
    \/ RecvMalformedClipInfo
    \/ RecvTruncated
    \/ MonitorTick
    \/ Tick

SpecHw == InitMonitor /\ [][NextHw]_vars

(***************************************************************************)
(* Steps of the hardware side with its keys: time in tenths of a second     *)
(***************************************************************************)
\* The keys the user presses, the tracks the session reports as stopped and
\* the snapshots it sends in this specification.
PressKeys == {KEY_ARROW_LEFT, KEY_BURGER}
MenuPressKeys == {KEY_ARROW_LEFT, KEY_BRIGHTNESS, KEY_BURGER}
StopTracks == {KEY_ARROW_LEFT % 8}
DeckSnapshots == HwSnapshots
ScrollModes == {SCROLL_BOTH, SCROLL_BOTH_RESET}
\* The configured h_offset of the unit.
ConfiguredOffset == 0

DeckHere ==
    World(deck_state, display, timers, <<>>, current_config, poll, unit_brightness)

\* The world after a step, and what the step was.
CommitWorld(w, op, arg) ==
    /\ deck_state' = w.state
    /\ display' = w.display
    /\ timers' = w.timers
    /\ hw_out' = w.out
    /\ current_config' = w.current_config
    /\ poll' = w.poll
    /\ unit_brightness' = w.units
    /\ hw_last' = [op |-> op, arg |-> arg, went_offline |-> FALSE]
    /\ UNCHANGED <<now, next_check, transitions>>

Commit(w, op, arg) == CommitWorld(w, op, arg) /\ UNCHANGED <<link, wait, handlers>>

\* An inbound message for the configured order.
Inbound(w, op, arg) ==
    /\ key_hist.inbound < MaxInbound
    /\ Commit(w, op, arg)
    /\ last_msg' = now
    /\ key_hist' = [key_hist EXCEPT !.inbound = @ + 1]
    /\ UNCHANGED stray_states

\* A handler that works on the record and the images alone.
Lift(w, r) == [w EXCEPT !.state = r.state, !.display = r.display]

DeckClipInfo ==
    \E clip_data \in DeckSnapshots :
        /\ Inbound(Lift(DeckHere, OscClipInfoHandler(Here, now, clip_data)),
                   "clip_info", clip_data)
        /\ UNCHANGED sessVars

DeckAblonline ==
    /\ Inbound(Lift(DeckHere, OscAblonlineHandler(Here, now)), "ablonline", <<>>)
    /\ UNCHANGED sessVars

DeckStructuralMismatch ==
    \E show \in BOOLEAN :
        /\ Inbound(Lift(DeckHere, OscStructuralMismatchHandler(Here, show)),
                   "structural_mismatch", <<BoolInt(show)>>)
        /\ UNCHANGED sessVars

DeckDocumentClosing ==
    /\ Inbound(Lift(DeckHere, OscDocumentClosingHandler(Here)), "document_closing", <<>>)
    /\ UNCHANGED sessVars

DeckTrackStopped ==
    \E track_index \in StopTracks, was_playing \in BOOLEAN :
        /\ Inbound(OscTrackStoppedHandler(DeckHere, now, track_index, was_playing),
                   "track_stopped", <<track_index, BoolInt(was_playing)>>)
        /\ UNCHANGED sessVars

\* The same for a track that was idle.
KeysTrackStopped ==
    \E track_index \in StopTracks :
        /\ Inbound(OscTrackStoppedHandler(DeckHere, now, track_index, FALSE),
                   "track_stopped", <<track_index, 0>>)
        /\ UNCHANGED sessVars

\* osc_config_request_handler: the answer is the unit's configuration.
OscConfigRequestHandler(w) ==
    [w EXCEPT !.out = Append(@, HwMsg("/config",
                                      <<DEFAULT_DISPLAY_ORDER, ConfiguredOffset>>))]

DeckConfigRequest ==
    /\ Inbound(OscConfigRequestHandler(DeckHere), "config_request", <<>>)
    /\ UNCHANGED sessVars

\* What a handler does with the deck_states record of an order that has no
\* unit: get_cs_state makes the record, the handler writes what it writes
\* before it asks for the unit.  /clip_info returns before it, and
\* /config_request finds no configuration.
StrayKinds == {"clip_info", "ablonline", "structural_mismatch", "document_closing",
               "track_stopped", "config_request"}

StrayHandler(records, order, kind, t, show) ==
    LET made == IF order \in DOMAIN records THEN records[order] ELSE InitDeckState
        put(rec) == [o \in DOMAIN records \cup {order} |->
                        IF o = order THEN rec ELSE records[o]]
    IN  IF kind = "ablonline"
        THEN put([made EXCEPT !.last_ablonline = t, !.ableton_offline = FALSE])
        ELSE IF kind = "structural_mismatch"
        THEN put([made EXCEPT !.structural_mismatch = show])
        ELSE IF kind = "document_closing"
        THEN put([made EXCEPT !.key_states = [k \in Keys |-> NoState],
                              !.last_ablonline = 0, !.waiting_cleared = FALSE])
        ELSE IF kind = "track_stopped" THEN put(made)
        ELSE records

StrayMessage ==
    \E order \in StrayOrders, kind \in StrayKinds, show \in BOOLEAN :
        /\ key_hist.inbound < MaxInbound
        /\ stray_states' = StrayHandler(stray_states, order, kind, now, show)
        /\ Commit(DeckHere, "stray", <<kind>>)
        /\ key_hist' = [key_hist EXCEPT !.inbound = @ + 1]
        /\ UNCHANGED last_msg
        /\ UNCHANGED sessVars

\* The restores the releases of a round are owed: one for each released key,
\* when its flash is over.
RECURSIVE OwedFrom(_, _, _, _)
OwedFrom(owed, press_time, released, t) ==
    IF released = {} THEN owed
    ELSE LET key == CHOOSE k \in released : \A j \in released : k <= j
         IN  OwedFrom(Append(owed, <<key, Max(t, press_time[key] + FLASH_DURATION)>>),
                      press_time, released \ {key}, t)

\* owed without its first entry for a restore of key at time t.
RECURSIVE Settle(_, _, _)
Settle(owed, key, t) ==
    IF owed = <<>> THEN owed
    ELSE IF Head(owed) = <<key, t>> THEN Tail(owed)
    ELSE <<Head(owed)>> \o Settle(Tail(owed), key, t)

RECURSIVE SettleAll(_, _, _)
SettleAll(owed, restored, t) ==
    IF restored = {} THEN owed
    ELSE LET key == CHOOSE k \in restored : TRUE
         IN  SettleAll(Settle(owed, key, t), restored \ {key}, t)

\* The keys a round of poll_keys restores itself: released after their flash.
RestoredAtRelease(w, t, current_key_states) ==
    {key \in w.poll.previous_key_states \ current_key_states :
        w.state.flash_until[key] # 0 /\ w.state.flash_until[key] - t <= 0}

\* A round of poll_keys that finds the keys of changed in the other position;
\* arg names the round.
PollRoundWithin(changed, arg, budget) ==
    LET previous == poll.previous_key_states
        current_key_states == (previous \ changed) \cup (changed \ previous)
        pressed == current_key_states \ previous
        released == previous \ current_key_states
        after == PollKeys(DeckHere, now, current_key_states)
    IN  /\ key_hist.polls < budget
        /\ Commit(after, "poll", arg)
        /\ key_hist' =
             [key_hist EXCEPT
                 !.press_time = [k \in Keys |-> IF k \in pressed THEN now ELSE @[k]],
                 !.owed = SettleAll(OwedFrom(@, key_hist.press_time, released, now),
                                    RestoredAtRelease(DeckHere, now,
                                                      current_key_states),
                                    now),
                 !.polls = @ + 1,
                 !.bright = IF KEY_BURGER \notin current_key_states THEN None
                            ELSE IF KEY_BRIGHTNESS \in pressed THEN Some(now)
                            ELSE IF KEY_BRIGHTNESS \in released THEN None
                            ELSE @,
                 !.changes = IF after.current_config.current_brightness
                                   # current_config.current_brightness
                             THEN @ + 1 ELSE @,
                 !.down = current_key_states,
                 !.commands = [k \in Keys |->
                     (IF k \in current_key_states /\ k \in key_hist.down THEN @[k]
                      ELSE 0)
                     + (IF k \in pressed
                        THEN Len(KeyCommands(DeckHere, current_key_states, k))
                        ELSE 0)]]
        /\ UNCHANGED <<last_msg, stray_states>>

PollRound(changed, arg) == PollRoundWithin(changed, arg, MaxPolls)

\* A round of poll_keys that finds one of keys changed.
PollOf(keys) ==
    \E key \in keys :
        PollRound({key}, <<key, BoolInt(key \notin poll.previous_key_states)>>)

KeyPoll ==
    /\ PollOf(PressKeys)
    /\ UNCHANGED sessVars

MenuPoll ==
    /\ PollOf(MenuPressKeys)
    /\ UNCHANGED sessVars

\* A round of poll_keys that finds the burger key and another key of the menu
\* changed at once: both moved within the 20 ms between two rounds.
MenuPollBoth ==
    /\ \E key \in MenuPressKeys \ {KEY_BURGER} :
          PollRound({KEY_BURGER, key},
                    <<key, BoolInt(key \notin poll.previous_key_states)>>)
    /\ UNCHANGED sessVars

\* Without position i.
Remove(seq, i) == [j \in 1 .. Len(seq) - 1 |-> IF j < i THEN seq[j] ELSE seq[j + 1]]

\* A timer that is due runs its lambda; of the timers due at once, the one
\* started first.
TimerFires ==
    \E i \in DOMAIN timers :
        /\ timers[i].due <= now
        /\ \A j \in 1 .. i - 1 : timers[j].due > now
        /\ Commit(RunTimer([DeckHere EXCEPT !.timers = Remove(timers, i)], timers[i]),
                  "timer", <<timers[i].kind, timers[i].key>>)
        /\ key_hist' = [key_hist EXCEPT !.owed =
                            IF timers[i].kind = "flash"
                            THEN Settle(@, timers[i].key, now) ELSE @]
        /\ UNCHANGED <<last_msg, stray_states>>
        /\ UNCHANGED sessVars

\* What time does to the hardware side when nothing runs.
Passes(t) ==
    /\ now' = t
    /\ hw_last' = [op |-> "tick", arg |-> <<>>, went_offline |-> FALSE]
    /\ hw_out' = <<>>
    /\ UNCHANGED <<deck_state, display, next_check, last_msg, transitions,
                   current_config, poll, timers, stray_states, key_hist,
                   unit_brightness, link, wait, handlers>>

\* A tenth of a second passes; no timer is late.
DeckTick ==
    /\ now < MaxDeckTime
    /\ \A i \in DOMAIN timers : timers[i].due > now
    /\ Passes(now + 1)
    /\ UNCHANGED sessVars

\* The same, until a long press of the brightness key has had time to end.
MenuTick ==
    /\ now < LONG_PRESS_DURATION + 1
    /\ \A i \in DOMAIN timers : timers[i].due > now
    /\ Passes(now + 1)
    /\ UNCHANGED sessVars

\* Nothing happens until the next timer is due.
TimerWait ==
    /\ timers # <<>>
    /\ \E i \in DOMAIN timers :
          /\ timers[i].due > now
          /\ \A j \in DOMAIN timers : timers[j].due >= timers[i].due
          /\ Passes(timers[i].due)
    /\ UNCHANGED sessVars

InitWindow(modes, levels) ==
    /\ InitHwSession
    /\ InitKeysWith(modes, levels)
    /\ deck_state = InitDeckState
    /\ display = InitDisplay
    /\ now = StartTime
    /\ next_check = StartTime + MonitorPeriod
    /\ hw_last = [op |-> "init", arg |-> <<>>, went_offline |-> FALSE]
    /\ last_msg = 0
    /\ transitions = 0

InitDeckWith(levels) ==
    /\ InitWindow(ScrollModes, levels)
    /\ InitLink(TRUE, {FALSE})
    /\ InitWait
    /\ InitHandlers

InitDeck == InitDeckWith({DefaultBrightness})

\* The window and its messages, the keys left alone.
NextDeck ==
    \/ DeckClipInfo
    \/ DeckAblonline
    \/ DeckStructuralMismatch
    \/ DeckDocumentClosing
    \/ DeckTrackStopped
    \/ DeckConfigRequest
    \/ StrayMessage
    \/ TimerFires
    \/ DeckTick
    \/ TimerWait

SpecDeck == InitDeck /\ [][NextDeck]_vars

\* The keys, with the messages that draw on them.
NextKeys ==
    \/ KeyPoll
    \/ DeckClipInfo
    \/ KeysTrackStopped
    \/ TimerFires
    \/ DeckTick

SpecKeys == InitDeck /\ [][NextKeys]_vars

\* The keys of the menu, no message arriving.
NextMenu ==
    \/ MenuPoll
    \/ MenuPollBoth
    \/ TimerFires
    \/ MenuTick

SpecMenu == InitDeck /\ [][NextMenu]_vars

\* The brightness key and the burger key alone, for several presses in a row,
\* from every brightness interactive_setup accepts at either end of its range
\* and the default.
BrightLevels == {MinBrightness, DefaultBrightness, MaxBrightness}
BrightKeys == {KEY_BURGER, KEY_BRIGHTNESS}

BrightPoll ==
    /\ \E key \in BrightKeys :
          PollRoundWithin({key}, <<key, BoolInt(key \notin poll.previous_key_states)>>,
                          MaxBrightPolls)
    /\ UNCHANGED sessVars

\* Both keys found changed in one round.
BrightPollBoth ==
    /\ PollRoundWithin(BrightKeys,
                       <<KEY_BRIGHTNESS,
                         BoolInt(KEY_BRIGHTNESS \notin poll.previous_key_states)>>,
                       MaxBrightPolls)
    /\ UNCHANGED sessVars

NextBright ==
    \/ BrightPoll
    \/ BrightPollBoth
    \/ TimerFires
    \/ MenuTick

SpecBright == InitDeckWith(BrightLevels) /\ [][NextBright]_vars

\* Any key of the unit pressed, and its /trigger_clip handled by the session
\* side, whose window lies over a session that it covers or that is smaller.
MaxTriggerPolls == 1
TriggerWindows == [h_offset : {0, 1}, v_offset : {0, 1}]
TriggerSongs ==
    [tracks : {NumTracks, MaxTracks}, scenes : {NumScenes, MaxScenes},
     clips : {DemoSong(0)}]

InitTrigger ==
    /\ InitConfigured(TriggerWindows, TriggerSongs)
    /\ InitKeysWith({SCROLL_VERTICAL, SCROLL_BOTH}, {DefaultBrightness})
    /\ deck_state = InitDeckState
    /\ display = InitDisplay
    /\ now = StartTime
    /\ next_check = StartTime + MonitorPeriod
    /\ hw_last = [op |-> "init", arg |-> <<>>, went_offline |-> FALSE]
    /\ last_msg = 0
    /\ transitions = 0
    /\ InitLink(TRUE, {FALSE})
    /\ InitWait
    /\ InitHandlers

TriggerPoll ==
    /\ \E key \in Keys :
          PollRoundWithin({key}, <<key, BoolInt(key \notin poll.previous_key_states)>>,
                          MaxTriggerPolls)
    /\ UNCHANGED sessVars

\* The /trigger_clip of the last round reaches the session side.
TriggerArrives ==
    \E i \in DOMAIN hw_out :
        /\ hw_out[i].address = "/trigger_clip"
        /\ Step(HandleTriggerClip(Begin(cs), song, hw_out[i].args[1], hw_out[i].args[2]),
                Op("trigger_clip", hw_out[i].args, NoCheck))
        /\ UNCHANGED <<song, threads>>

NextTrigger ==
    \/ TriggerPoll
    \/ TriggerArrives

SpecTrigger == InitTrigger /\ [][NextTrigger]_vars

\* Two clip keys, polled every round whether or not they moved, with rounds
\* whose send raises.
MaxFaultPolls == 3
FaultKeys == {0, 1}

\* A round of poll_keys that finds the keys of current_key_states down.
FaultPoll ==
    /\ \E current_key_states \in SUBSET FaultKeys :
          LET previous == poll.previous_key_states
          IN  PollRoundWithin((previous \ current_key_states)
                                \cup (current_key_states \ previous),
                              InKeyOrder(current_key_states), MaxFaultPolls)
    /\ UNCHANGED sessVars

\* A round of poll_keys in which the send for the pressed key fail raises.
FailingPoll ==
    /\ \E current_key_states \in SUBSET FaultKeys :
          \E fail \in current_key_states \ poll.previous_key_states :
             LET pressed == {k \in current_key_states \ poll.previous_key_states :
                                k < fail}
             IN  /\ KeyCommands(DeckHere, current_key_states, fail) # <<>>
                 /\ key_hist.polls < MaxFaultPolls
                 /\ Commit(PollKeysFailing(DeckHere, now, current_key_states, fail),
                           "poll_failed", <<fail>>)
                 /\ key_hist' =
                      [key_hist EXCEPT
                          !.polls = @ + 1,
                          !.down = current_key_states,
                          !.commands = [k \in Keys |->
                              (IF k \in current_key_states /\ k \in key_hist.down
                               THEN @[k] ELSE 0)
                              + (IF k \in pressed
                                 THEN Len(KeyCommands(DeckHere, current_key_states, k))
                                 ELSE 0)]]
                 /\ UNCHANGED <<last_msg, stray_states>>
    /\ UNCHANGED sessVars

NextFault ==
    \/ FaultPoll
    \/ FailingPoll
    \/ TimerFires
    \/ DeckTick

SpecFault == InitDeck /\ [][NextFault]_vars

(***************************************************************************)
(* The two processes and the datagrams between them                         *)
(***************************************************************************)
deckVars == <<deck_state, display, now, next_check, hw_last, last_msg, transitions,
              current_config, poll, timers, hw_out, stray_states, key_hist,
              unit_brightness>>

Range(seq) == {seq[i] : i \in DOMAIN seq}

\* send_config_loop, for the order followed here.
PeriodicConfig(debug_mode) ==
    HwMsg("/config", <<DEFAULT_DISPLAY_ORDER, ConfiguredOffset, BoolInt(debug_mode)>>)

\* A step of the session side that sends what c holds in osc_out.
SessionSends(c, op) ==
    /\ cs' = c
    /\ last' = op
    /\ hist' = NextHist(op)
    /\ link' = [link EXCEPT !.to_hw = @ \cup Range(c.osc_out)]
    /\ UNCHANGED <<song, threads, wait, handlers>>
    /\ UNCHANGED deckVars

\* A step that changes link alone.
LinkOnly(l) ==
    /\ link' = l
    /\ UNCHANGED <<cs, song, threads, last, hist, wait, handlers>>
    /\ UNCHANGED deckVars

\* The host loads the control surface: ClipDeck.__init__ starts its threads.
StartSession ==
    /\ ~link.cs_started
    /\ LinkOnly([link EXCEPT !.cs_started = TRUE])

\* main of clipdeck.py has mapped its handlers and started its loops.
StartHardware ==
    /\ ~link.hw_started
    /\ LinkOnly([link EXCEPT !.hw_started = TRUE])

\* disconnect
Disconnect ==
    /\ link.cs_started /\ link.running
    /\ LinkOnly([link EXCEPT !.running = FALSE])

\* _request_config: the test of the while loop.
RequestTest ==
    /\ link.cs_started /\ link.request = "test"
    /\ LinkOnly([link EXCEPT !.request =
                    IF link.running /\ ~cs.config_received THEN "send" ELSE "done"])

\* _request_config: the _osc_send of the loop body.
RequestSend ==
    /\ link.request = "send"
    /\ cs' = cs
    /\ last' = Op("config_request", <<BoolInt(cs.config_received)>>, NoCheck)
    /\ hist' = NextHist(last')
    /\ link' = [link EXCEPT !.request = "sleep",
                            !.to_hw = @ \cup {Msg("/config_request", 0, 0, <<>>)}]
    /\ UNCHANGED <<song, threads, wait, handlers>>
    /\ UNCHANGED deckVars

\* _request_config: time.sleep(1) is over.
RequestSleep ==
    /\ link.request = "sleep"
    /\ LinkOnly([link EXCEPT !.request = "test"])

\* One round of the announcer, its message on the way.
LinkAnnounce ==
    /\ link.cs_started /\ link.running
    /\ \E is_playing \in BOOLEAN :
          SessionSends(AnnounceOnce(Begin(cs), is_playing),
                       Op("send_ablonline", <<BoolInt(is_playing)>>, NoCheck))

\* One pass of the poller that reaches _prepare_and_send_clip_info.
LinkPollClips ==
    /\ link.cs_started /\ link.running
    /\ cs.initialized /\ cs.song_loaded
    /\ SessionSends(PrepareAndSendClipInfo(Begin(cs), song),
                    Op("poll_clips", <<>>, NoCheck))

\* One round of send_config_loop.
PushConfig ==
    /\ link.hw_started
    /\ CommitWorld([DeckHere EXCEPT !.out = <<PeriodicConfig(link.debug_mode)>>],
                   "push_config", <<>>)
    /\ link' = [link EXCEPT !.to_cs = @ \cup {PeriodicConfig(link.debug_mode)}]
    /\ UNCHANGED <<last_msg, stray_states, key_hist, wait, handlers>>
    /\ UNCHANGED sessVars

\* The kinds of datagram each side sends in this specification.
ToHwKinds == {"/config_request", "/ablonline", "/clip_info"}
ToCsKinds == {"/config"}

\* The hardware side's dispatcher hands a datagram to its handler.
Dispatch(m) ==
    IF m.type = "/config_request" THEN OscConfigRequestHandler(DeckHere)
    ELSE IF m.type = "/ablonline" THEN Lift(DeckHere, OscAblonlineHandler(Here, now))
    ELSE IF m.type = "/structural_mismatch"
    THEN Lift(DeckHere, OscStructuralMismatchHandler(Here, m.a # 0))
    ELSE Lift(DeckHere, OscClipInfoHandler(Here, now, m.cells))

\* A datagram of the kind reaches the hardware side.
DeliverToHw(type) ==
    \E m \in link.to_hw :
        /\ m.type = type
        /\ link.hw_started
        /\ CommitWorld(Dispatch(m), m.type, <<>>)
        /\ link' = [link EXCEPT !.to_hw = @ \ {m},
                                !.to_cs = @ \cup Range(Dispatch(m).out)]
        /\ last_msg' = now
        /\ UNCHANGED <<stray_states, key_hist, wait, handlers>>
        /\ UNCHANGED sessVars

\* A datagram of the kind reaches the session side: _osc_config_handler.
DeliverToCs(address) ==
    \E m \in link.to_cs :
        /\ m.address = address
        /\ link.cs_started /\ link.running
        /\ LET c == HandleConfig(Begin(cs), song, m.args)
               op == Op("config", m.args,
                        IF ConfigAppliesOffsets(cs, m.args) THEN CheckCall(c, song)
                        ELSE NoCheck)
           IN  /\ cs' = c
               /\ last' = op
               /\ hist' = NextHist(op)
               /\ link' = [link EXCEPT !.to_cs = @ \ {m},
                                       !.to_hw = @ \cup Range(c.osc_out)]
        /\ UNCHANGED <<song, threads, wait, handlers>>
        /\ UNCHANGED deckVars

\* A datagram is lost: the transport drops it, or nothing listens.
Lose ==
    \/ \E m \in link.to_hw : LinkOnly([link EXCEPT !.to_hw = @ \ {m}])
    \/ \E m \in link.to_cs : LinkOnly([link EXCEPT !.to_cs = @ \ {m}])

Delivery ==
    \/ \E type \in ToHwKinds : DeliverToHw(type)
    \/ \E address \in ToCsKinds : DeliverToCs(address)

InitLinked ==
    /\ InitWindow({SCROLL_VERTICAL}, {DefaultBrightness})
    /\ InitLink(FALSE, BOOLEAN)
    /\ InitWait
    /\ InitHandlers

\* The two loops that seek the other side, and the transport.
NextShake ==
    \/ StartSession
    \/ StartHardware
    \/ RequestTest
    \/ RequestSend
    \/ RequestSleep
    \/ PushConfig
    \/ Delivery
    \/ Lose

\* The same with the announcer and the poller, and the session side may be
\* disconnected.
NextLink ==
    \/ NextShake
    \/ LinkAnnounce
    \/ LinkPollClips
    \/ Disconnect

SpecLink == InitLinked /\ [][NextLink]_vars

\* Both processes start, the two loops that seek the other side keep
\* running, and a /config_request, an /ablonline or a /config that is in
\* flight again and again arrives again and again.  Nothing is assumed of
\* the announcer, of the poller or of the /clip_info datagrams.
FairShake ==
    /\ WF_vars(StartSession \/ StartHardware)
    /\ WF_vars(RequestTest \/ RequestSend \/ RequestSleep)
    /\ WF_vars(PushConfig)
    /\ SF_vars(DeliverToHw("/config_request"))
    /\ SF_vars(DeliverToHw("/ablonline"))
    /\ SF_vars(DeliverToCs("/config"))

SpecShake == InitLinked /\ [][NextShake]_vars /\ FairShake

(***************************************************************************)
(* A window that is structurally invalid and stays so: the unit is          *)
(* configured with an offset at which the session has no track.            *)
(***************************************************************************)
\* The offset the unit is configured with here, and the sessions.
MismatchOffset == NumTracks
MismatchSongs ==
    [tracks : {NumTracks - 1, NumTracks}, scenes : {NumScenes}, clips : {DemoSong(0)}]

\* The session side has just accepted its first /config; what the handler
\* sent is on the way.
InitMismatch ==
    /\ song \in MismatchSongs
    /\ cs = HandleConfig(InitCS, song, <<DEFAULT_DISPLAY_ORDER, MismatchOffset>>)
    /\ threads = [reinit |-> FALSE, refresh |-> FALSE]
    /\ last = Op("config", <<DEFAULT_DISPLAY_ORDER, MismatchOffset>>, NoCheck)
    /\ hist = [prev_check |-> TRUE, accepted |-> TRUE, first_offset |-> MismatchOffset]
    /\ InitKeysWith({SCROLL_VERTICAL}, {DefaultBrightness})
    /\ deck_state = InitDeckState
    /\ display = InitDisplay
    /\ now = StartTime
    /\ next_check = StartTime + MonitorPeriod
    /\ hw_last = [op |-> "init", arg |-> <<>>, went_offline |-> FALSE]
    /\ last_msg = 0
    /\ transitions = 0
    /\ link = [to_hw |-> Range(cs.osc_out), to_cs |-> {}, cs_started |-> TRUE,
               hw_started |-> TRUE, running |-> TRUE, request |-> "done",
               debug_mode |-> FALSE]
    /\ InitWait
    /\ InitHandlers

\* One round of the announcer with the host playing, and one with it paused.
AnnouncePlaying ==
    SessionSends(AnnounceOnce(Begin(cs), TRUE), Op("send_ablonline", <<1>>, NoCheck))

AnnouncePaused ==
    SessionSends(AnnounceOnce(Begin(cs), FALSE), Op("send_ablonline", <<0>>, NoCheck))

\* The periodic /config of the unit is handled: not the first one.
Reconfirm ==
    SessionSends(HandleConfig(Begin(cs), song, <<DEFAULT_DISPLAY_ORDER, MismatchOffset, 0>>),
                 Op("config", <<DEFAULT_DISPLAY_ORDER, MismatchOffset, 0>>, NoCheck))

\* A key of the window is pressed and its /trigger_clip is handled.
MismatchTrigger ==
    \E track_offset \in TriggerTracks, scene_offset \in TriggerScenes :
        SessionSends(HandleTriggerClip(Begin(cs), song, track_offset, scene_offset),
                     Op("trigger_clip", <<track_offset, scene_offset>>, NoCheck))

MismatchKinds == {"/structural_mismatch", "/ablonline"}

\* A datagram of the session side is lost on its way to the unit.
LoseToHw == \E m \in link.to_hw : LinkOnly([link EXCEPT !.to_hw = @ \ {m}])

NextMismatch ==
    \/ AnnouncePlaying
    \/ AnnouncePaused
    \/ Reconfirm
    \/ MismatchTrigger
    \/ \E type \in MismatchKinds : DeliverToHw(type)
    \/ LoseToHw

\* The announcer and the periodic /config keep coming, and a datagram that
\* is on the way again and again arrives again and again.
FairMismatch ==
    /\ WF_vars(AnnouncePlaying \/ AnnouncePaused)
    /\ WF_vars(Reconfirm)
    /\ SF_vars(DeliverToHw("/structural_mismatch"))
    /\ SF_vars(DeliverToHw("/ablonline"))

SpecMismatch == InitMismatch /\ [][NextMismatch]_vars /\ FairMismatch

(***************************************************************************)
(* The wait for the host: _wait_for_live, called by the constructor, by    *)
(* delayed_reinit and by _reinitialize.                                    *)
(***************************************************************************)
max_retries == 100

WaitDone == {"idle", "returned", "raised"}

\* The body of the loop up to the sleep with the comparison the wrong way.
RetryOrRaiseLate(w) ==
    LET retry_count == w.retry_count + 1
    IN  [w EXCEPT !.retry_count = retry_count,
                  !.pc = IF retry_count > max_retries THEN "raised" ELSE "sleep"]

\* The body of the loop up to the sleep: count the failed check and raise
\* RuntimeError once there were max_retries of them.
RetryOrRaise(w) ==
    LET retry_count == w.retry_count + 1
    IN  [w EXCEPT !.retry_count = retry_count,
                  !.pc = IF retry_count >= max_retries THEN "raised" ELSE "sleep"]

\* A call of _wait_for_live; a thread that raised has ended, and a later
\* change of document starts another.
WaitForLive ==
    /\ wait.pc \in WaitDone
    /\ wait' = [pc |-> "check", retry_count |-> 0, checks |-> 0, ready |-> FALSE]
    /\ UNCHANGED <<sessVars, deckVars, link, handlers>>

\* The loop's condition: _can_proceed answers what the host allows.
CanProceed ==
    /\ wait.pc = "check"
    /\ \E ready \in BOOLEAN :
          wait' = [wait EXCEPT !.checks = @ + 1, !.ready = ready,
                               !.pc = IF ready THEN "returned" ELSE "failed"]
    /\ UNCHANGED <<sessVars, deckVars, link, handlers>>

WaitRetry ==
    /\ wait.pc = "failed"
    /\ wait' = RetryOrRaise(wait)
    /\ UNCHANGED <<sessVars, deckVars, link, handlers>>

\* time.sleep(0.1), then the condition again.
WaitSleep ==
    /\ wait.pc = "sleep"
    /\ wait' = [wait EXCEPT !.pc = "check"]
    /\ UNCHANGED <<sessVars, deckVars, link, handlers>>

WaitStep == CanProceed \/ WaitRetry \/ WaitSleep

NextWait ==
    \/ WaitForLive
    \/ CanProceed
    \/ WaitRetry
    \/ WaitSleep

\* The thread in the loop is scheduled again and again.
SpecWait == InitLinked /\ [][NextWait]_vars /\ WF_vars(WaitStep)

(***************************************************************************)
(* The threads of the session side, statement by statement.  The listener  *)
(* is a ThreadingOSCUDPServer: every datagram is handled on a thread of    *)
(* its own, and no handler takes a lock.                                   *)
(***************************************************************************)
MaxRaceScrolls == 2

\* A step of a thread that leaves the session side in state c and the
\* threads in state h.
ThreadStep(c, h, op, arg) ==
    /\ cs' = c
    /\ handlers' = h
    /\ last' = Op(op, arg, NoCheck)
    /\ UNCHANGED <<song, threads, hist, deckVars, link, wait>>

\* _osc_config_handler in four steps, th its locals: the test of
\* _config_received, the assignment of the offsets, the marking, and the
\* rest (set_offsets with its listener, the /ablonline).
ConfigTest(c, th) ==
    [th EXCEPT !.first_config = ~c.config_received,
               !.pc = IF ~c.config_received THEN "assign" ELSE "mark"]

ConfigAssign(c, th) ==
    [c EXCEPT !.h_offset = th.h_offset, !.initial_h_offset = th.h_offset]

ConfigMark(c, th) ==
    [c EXCEPT !.config_received = TRUE, !.debug_mode = th.debug_mode]

ConfigApply(c, sg, th) ==
    LET c3 == IF th.first_config
                 /\ (c.h_offset # c.last_applied_h_offset
                     \/ c.v_offset # c.last_applied_v_offset)
              THEN PrepareAndSendClipInfo(ApplyOffsets(c, sg), sg)
              ELSE c
    IN  OscSend(c3, Msg("/ablonline", 0, 0, <<>>))

\* A /config for this order arrives: the reply to a /config_request or the
\* periodic one, both with the offset the hardware side is configured with.
RaceArrive ==
    \E t \in ConfigThreads, h_offset \in CfgOffsets :
        /\ handlers.config[t].pc = "idle"
        /\ \A u \in ConfigThreads :
              handlers.config[u].pc # "idle" => handlers.config[u].h_offset = h_offset
        /\ ThreadStep(cs, [handlers EXCEPT !.config[t].pc = "test",
                                           !.config[t].h_offset = h_offset],
                      "config_arrive", <<t, h_offset>>)

RaceTest ==
    \E t \in ConfigThreads :
        /\ handlers.config[t].pc = "test"
        /\ ThreadStep(cs, [handlers EXCEPT !.config[t] = ConfigTest(cs, @)],
                      "config_test", <<t>>)

RaceAssign ==
    \E t \in ConfigThreads :
        /\ handlers.config[t].pc = "assign"
        /\ ThreadStep(ConfigAssign(cs, handlers.config[t]),
                      [handlers EXCEPT !.config[t].pc = "mark"],
                      "config_assign", <<t>>)

RaceMark ==
    \E t \in ConfigThreads :
        /\ handlers.config[t].pc = "mark"
        /\ ThreadStep(ConfigMark(cs, handlers.config[t]),
                      [handlers EXCEPT !.config[t].pc = "apply"],
                      "config_mark", <<t>>)

RaceApply ==
    \E t \in ConfigThreads :
        /\ handlers.config[t].pc = "apply"
        /\ ThreadStep(ConfigApply(Begin(cs), song, handlers.config[t]),
                      [handlers EXCEPT !.config[t].pc = "done"],
                      "config_apply", <<t>>)

\* A /scroll handled on a thread of its own, here in one step; scrolled
\* remembers a scroll that moved h_offset after a config was marked received.
RaceScroll ==
    \E arg \in ScrollArgs :
        /\ handlers.scrolls < MaxRaceScrolls
        /\ LET c == HandleScroll(Begin(cs), song, arg)
           IN  ThreadStep(c, [handlers EXCEPT
                                 !.scrolls = @ + 1,
                                 !.scrolled = @ \/ (cs.config_received
                                                     /\ c.h_offset # cs.h_offset)],
                          "scroll", arg)

NextConfigRace ==
    \/ RaceArrive
    \/ RaceTest
    \/ RaceAssign
    \/ RaceMark
    \/ RaceApply
    \/ RaceScroll

SpecConfigRace == Init /\ [][NextConfigRace]_vars

\* _prepare_and_send_clip_info on the poller's thread, sn its locals: the
\* two guards, then one step for each pass of the loop over the columns
\* (track_is_playing), one for each row's actual_scene_idx, one for each
\* cell, and the send.  Every pass reads self._h_offset or self._v_offset
\* anew.
SnapGuards(c, sg, sn) ==
    IF ~c.config_received \/ c.h_offset >= sg.tracks
    THEN [sn EXCEPT !.pc = "idle"]
    ELSE [sn EXCEPT !.pc = "flags", !.track_index = 0, !.scene_index = 0,
                    !.track_is_playing = <<>>, !.clip_info = <<>>]

SnapFlag(c, sg, sn) ==
    LET actual_track_idx == c.h_offset + sn.track_index
        flag == IF actual_track_idx < sg.tracks
                THEN TrackIsPlaying(sg, actual_track_idx)
                ELSE FALSE
    IN  [sn EXCEPT !.track_is_playing = Append(@, flag),
                   !.track_index = (@ + 1) % NumTracks,
                   !.pc = IF sn.track_index + 1 = NumTracks THEN "row" ELSE "flags"]

SnapRow(c, sn) ==
    [sn EXCEPT !.actual_scene_idx = c.v_offset + sn.scene_index, !.pc = "cell"]

SnapCell(c, sg, sn) ==
    LET w == [h_offset |-> c.h_offset,
              v_offset |-> sn.actual_scene_idx - sn.scene_index]
        flags == [i \in 0 .. NumTracks - 1 |-> sn.track_is_playing[i + 1]]
        last_column == sn.track_index + 1 = NumTracks
        last_row == sn.scene_index + 1 = NumScenes
    IN  [sn EXCEPT !.clip_info = Append(@, ClipInfoCell(w, sg, flags, sn.scene_index,
                                                        sn.track_index)),
                   !.track_index = (@ + 1) % NumTracks,
                   !.scene_index = IF last_column /\ ~last_row THEN @ + 1 ELSE @,
                   !.pc = IF ~last_column THEN "cell"
                          ELSE IF last_row THEN "send" ELSE "row"]

\* The session the snapshot is taken of: a track and a scene more than the
\* window, so that it can scroll either way.
RaceSong == [tracks |-> MaxTracks, scenes |-> MaxScenes, clips |-> DemoSong(0)]

SnapBegin ==
    /\ handlers.snap.pc = "idle"
    /\ cs.initialized /\ cs.song_loaded
    /\ ThreadStep(cs, [handlers EXCEPT !.snap = SnapGuards(cs, song, @)],
                  "snap_begin", <<>>)

SnapFlags ==
    /\ handlers.snap.pc = "flags"
    /\ ThreadStep(cs, [handlers EXCEPT !.snap = SnapFlag(cs, song, @)],
                  "snap_flag", <<handlers.snap.track_index>>)

SnapRows ==
    /\ handlers.snap.pc = "row"
    /\ ThreadStep(cs, [handlers EXCEPT !.snap = SnapRow(cs, @)],
                  "snap_row", <<handlers.snap.scene_index>>)

SnapCells ==
    /\ handlers.snap.pc = "cell"
    /\ ThreadStep(cs, [handlers EXCEPT !.snap = SnapCell(cs, song, @)],
                  "snap_cell", <<handlers.snap.scene_index, handlers.snap.track_index>>)

SnapSend ==
    /\ handlers.snap.pc = "send"
    /\ ThreadStep(SendMessage(Begin(cs), "/clip_info", 0, 0, handlers.snap.clip_info),
                  [handlers EXCEPT !.snap.pc = "idle"],
                  "snap_send", <<>>)

NextSnapRace ==
    \/ SnapBegin
    \/ SnapFlags
    \/ SnapRows
    \/ SnapCells
    \/ SnapSend
    \/ RaceScroll

InitSnapRace ==
    /\ InitConfigured({[h_offset |-> 0, v_offset |-> 0]}, {RaceSong})
    /\ InitHw

SpecSnapRace == InitSnapRace /\ [][NextSnapRace]_vars

(***************************************************************************)
(* Properties of the window state machine                                   *)
(***************************************************************************)
ClipInfosIn(out) == SelectSeq(out, LAMBDA m : m.type = "/clip_info")
MismatchesIn(out, show) ==
    SelectSeq(out, LAMBDA m : m.type = "/structural_mismatch" /\ m.a = show)

MaxH(sg) == Max(0, sg.tracks - NumTracks)
MaxV(sg) == Max(0, sg.scenes - NumScenes)
InBounds(c, sg) ==
    /\ 0 <= c.h_offset /\ c.h_offset <= MaxH(sg)
    /\ 0 <= c.v_offset /\ c.v_offset <= MaxV(sg)

OffsetsKept ==
    /\ cs'.h_offset = cs.h_offset
    /\ cs'.v_offset = cs.v_offset
    /\ cs'.initial_h_offset = cs.initial_h_offset

\* C1: of the accepted /config messages of a run, the first one sets the
\* horizontal offset and the initial horizontal offset to the offset it
\* carries; every later accepted one leaves the horizontal offset, the
\* vertical offset and the initial horizontal offset as they were.
C1_FirstConfigOnly ==
    [][(last'.op = "config" /\ Accepted(last'.arg)) =>
          IF ~hist.accepted
          THEN /\ cs'.h_offset = last'.arg[2]
               /\ cs'.initial_h_offset = last'.arg[2]
               /\ cs'.v_offset = cs.v_offset
          ELSE OffsetsKept]_vars

\* A later accepted config, carrying another offset than the first, was
\* handled after the window had been scrolled away from its initial column.
C1_Witness ==
    /\ last.op = "config" /\ Accepted(last.arg)
    /\ last.arg[2] # cs.initial_h_offset
    /\ cs.h_offset # cs.initial_h_offset
    /\ cs.h_offset # last.arg[2]

\* C2 as stated: after every /scroll both offsets are within
\* 0 .. max(0, trackCount - 8) and 0 .. max(0, sceneCount - 4).
C2_AsStated == last.op = "scroll" => InBounds(cs, song)

\* C2: after every /scroll both offsets are at least 0; after a right
\* scroll the horizontal offset is at most max(0, trackCount - 8) and after
\* a down scroll the vertical offset is at most max(0, sceneCount - 4); and
\* a scroll other than reset that starts within both ranges ends within
\* them.
C2_ScrollBounds ==
    [][last'.op = "scroll" =>
          LET direction == ScrollDirection(last'.arg)
          IN  /\ cs'.h_offset >= 0 /\ cs'.v_offset >= 0
              /\ direction = <<"right">> => cs'.h_offset <= MaxH(song)
              /\ direction = <<"down">> => cs'.v_offset <= MaxV(song)
              /\ (direction # <<"reset">> /\ InBounds(cs, song))
                     => InBounds(cs', song)]_vars

\* A fast right scroll was cut at the last column the session allows, and
\* the vertical offset is at its upper end too.
C2_Witness ==
    /\ last.op = "scroll" /\ last.arg = <<"right", "-fast">>
    /\ song.tracks > NumTracks /\ cs.h_offset = MaxH(song)
    /\ song.scenes > NumScenes /\ cs.v_offset = MaxV(song)

\* C3: once a config was accepted, a reset scroll sets the horizontal offset
\* to the offset the first accepted config carried and leaves the vertical
\* offset and the initial horizontal offset as they were.
C3_Reset ==
    [][(last'.op = "scroll" /\ ScrollDirection(last'.arg) = <<"reset">>
        /\ hist.accepted) =>
          /\ cs'.h_offset = hist.first_offset
          /\ cs'.v_offset = cs.v_offset
          /\ cs'.initial_h_offset = cs.initial_h_offset]_vars

\* A reset moved the window back to a configured column other than 0 while
\* the window was scrolled down.
C3_Witness ==
    /\ last.op = "scroll" /\ ScrollDirection(last.arg) = <<"reset">>
    /\ last.check.called
    /\ hist.accepted /\ hist.first_offset > 0
    /\ cs.h_offset = hist.first_offset
    /\ cs.v_offset > 0

\* C4 as stated: a /scroll that changes an offset sends a /clip_info, in
\* every state of the session.
C4_AsStated ==
    [][(last'.op = "scroll"
        /\ (cs'.h_offset # cs.h_offset \/ cs'.v_offset # cs.v_offset))
          => Len(ClipInfosIn(cs'.osc_out)) > 0]_vars

\* C4: a /scroll that leaves both offsets as they were sends no /clip_info;
\* a /scroll that changes one sends exactly one /clip_info, computed for the
\* new offsets, if a config was accepted and the new horizontal offset is
\* below the track count, and sends none otherwise.
C4_ScrollSnapshot ==
    [][last'.op = "scroll" =>
          LET changed == cs'.h_offset # cs.h_offset \/ cs'.v_offset # cs.v_offset
              sent == ClipInfosIn(cs'.osc_out)
              w == [h_offset |-> cs'.h_offset, v_offset |-> cs'.v_offset]
          IN  IF changed /\ hist.accepted /\ cs'.h_offset < song.tracks
              THEN /\ Len(sent) = 1
                   /\ sent[1].a = cs'.h_offset /\ sent[1].b = cs'.v_offset
                   /\ sent[1].cells = ClipInfo(w, song)
              ELSE sent = <<>>]_vars

\* A clamped scroll (right at the last column) sent nothing although a
\* config was accepted and the window is valid.
C4_Witness ==
    /\ last.op = "scroll" /\ ScrollDirection(last.arg) = <<"right">>
    /\ hist.accepted /\ cs.h_offset < song.tracks
    /\ ~last.check.called
    /\ cs.osc_out = <<>>
    /\ cs.v_offset > 0

C8_OffsetsFrame ==
    [][(cs'.h_offset # cs.h_offset \/ cs'.v_offset # cs.v_offset) =>
          \/ last'.op = "scroll"
          \/ last'.op = "config" /\ Accepted(last'.arg) /\ ~hist.accepted]_vars

\* The track count fell to or below the horizontal offset: the window is
\* invalid, and the offsets, scrolled on both axes, are what they were.
C8_Witness ==
    /\ last.op = "reinitialize"
    /\ cs.h_offset >= song.tracks
    /\ cs.h_offset # cs.initial_h_offset
    /\ cs.v_offset > 0

(***************************************************************************)
(* Properties of the snapshot                                               *)
(***************************************************************************)
\* The cell of window row `row`, column `col` in a list of cells.
CellAt(cells, row, col) == cells[row * NumTracks + col + 1]

\* The code the classification gives the cell (row, col) of the window of c.
CodeIsClassified(code, c, sg, row, col) ==
    LET t == c.h_offset + col
        s == c.v_offset + row
        in_range == t < sg.tracks /\ s < sg.scenes
        slot == ClipSlot(sg, t, s)
    IN  /\ (code = -4) = ~in_range
        /\ in_range =>
              IF slot.has_clip /\ slot.is_playing THEN code \in 1 .. ProgressSteps
              ELSE IF slot.has_clip /\ slot.is_triggered THEN code = -1
              ELSE IF \E s2 \in 0 .. sg.scenes - 1 :
                          /\ ClipSlot(sg, t, s2).has_clip
                          /\ (ClipSlot(sg, t, s2).is_playing
                              \/ ClipSlot(sg, t, s2).is_triggered)
                   THEN code = -2
                   ELSE code = -3

\* C6: a /clip_info carries 32 cells, row by row; the code of the cell of
\* (row, col) is -4 exactly when offset + col or offset + row is beyond the
\* session, else 1..16 when the slot's clip is playing, else -1 when it is
\* triggered, else -2 when a slot of the track holds a playing or triggered
\* clip, else -3.
C6_CellCodes ==
    \A i \in 1 .. Len(ClipInfosIn(cs.osc_out)) :
        LET m == ClipInfosIn(cs.osc_out)[i]
        IN  /\ DOMAIN m.cells = 1 .. (NumScenes * NumTracks)
            /\ \A row \in 0 .. NumScenes - 1, col \in 0 .. NumTracks - 1 :
                   CodeIsClassified(CellAt(m.cells, row, col).code, cs, song, row, col)

\* A snapshot was sent whose cells carry all five kinds of code, one of the
\* playing cells being of a clip that is triggered too.
C6_Witness ==
    /\ last.op = "poll_clips"
    /\ Len(ClipInfosIn(cs.osc_out)) = 1
    /\ LET cells == ClipInfosIn(cs.osc_out)[1].cells
       IN  /\ \A k \in {-4, -3, -2, -1} :
                  \E i \in DOMAIN cells : cells[i].code = k
           /\ \E row \in 0 .. NumScenes - 1, col \in 0 .. NumTracks - 1 :
                  /\ CellAt(cells, row, col).code >= 1
                  /\ cs.h_offset + col < song.tracks
                  /\ cs.v_offset + row < song.scenes
                  /\ ClipSlot(song, cs.h_offset + col, cs.v_offset + row).is_triggered

\* The code a snapshot of the scenario's session carries for its clip.
ScenarioCode == CellAt(ClipInfosIn(cs.osc_out)[1].cells, 1, 2).code

\* C7: the code of a playing clip at position p of length L is
\* min(max(floor(16 p / L), 0), 15) + 1, a value of 1..16; for p / L = 1/2
\* it is 9.
C7_ProgressCode ==
    (last.op = "poll_clips" /\ song.clips.family = "scenario") =>
        LET pos == song.clips.pos
            len == song.clips.len
        IN  /\ Len(ClipInfosIn(cs.osc_out)) = 1
            /\ ScenarioCode \in 1 .. 16
            /\ ScenarioCode = Min(Max((16 * pos) \div len, 0), 15) + 1
            /\ (2 * pos = len) => ScenarioCode = 9

\* The snapshot of a clip half way through its length carries code 9.
C7_Witness ==
    /\ last.op = "poll_clips" /\ song.clips.family = "scenario"
    /\ 2 * song.clips.pos = song.clips.len
    /\ Len(ClipInfosIn(cs.osc_out)) = 1
    /\ ScenarioCode = 9

(***************************************************************************)
(* Properties of the liveness monitor                                       *)
(***************************************************************************)
\* C9 as stated: after a round of the monitor the window is offline exactly
\* when no message was ever received or the most recent one was received
\* longer ago than the timeout.
C9_AsStated ==
    hw_last.op = "monitor" =>
        (deck_state.ableton_offline
            = (last_msg = 0 \/ now - last_msg > OFFLINE_TIMEOUT))

\* C10 as stated: once the most recent message is older than the timeout, a
\* round of the monitor has made exactly one offline transition since that
\* message.
C10_AsStated ==
    (hw_last.op = "monitor" /\ last_msg # 0 /\ now - last_msg > OFFLINE_TIMEOUT)
        => transitions = 1

(***************************************************************************)
(* Properties of the hardware side's message handlers                       *)
(***************************************************************************)
\* The kinds of the session-to-hardware catalogue that carry no reset.
CatalogueKinds == {"clip_info", "ablonline", "structural_mismatch", "track_stopped",
                   "config_request"}

\* C11 as stated: after an inbound message of any catalogue kind for the
\* configured window, the window's lastHeartbeat is the time of receipt.
C11_AsStated ==
    hw_last.op \in CatalogueKinds => deck_state.last_ablonline = now

\* C12 as stated: an inbound message of any kind that finds the configured
\* window offline leaves it not offline.
C12_AsStated ==
    [][(deck_state.ableton_offline
            /\ hw_last'.op \in CatalogueKinds \cup {"document_closing"})
        => ~deck_state'.ableton_offline]_vars

(***************************************************************************)
(* Properties of the key state machine                                      *)
(***************************************************************************)
\* Key k is held, or the flash of its last press is not over at time t.
HeldOrFlashing(k, t) ==
    \/ k \in deck_state.pressed_keys
    \/ key_hist.press_time[k] # 0 /\ t < key_hist.press_time[k] + FLASH_DURATION

\* The cell a snapshot carries for key k.
CellFor(clip_data, k) ==
    <<clip_data[k + 1].label, clip_data[k + 1].color, clip_data[k + 1].code>>

\* C13 as stated: a /clip_info cell for a key that is held or whose flash is
\* not over replaces the key's cache entry and leaves the key's image as it
\* is; a cell for a key that is neither, differing from the cache, replaces
\* the entry and is rendered on the key.
C13_AsStated ==
    [][hw_last'.op = "clip_info" =>
        \A k \in Keys :
            LET cell == CellFor(hw_last'.arg, k)
            IN  IF HeldOrFlashing(k, now)
                THEN /\ deck_state'.key_states[k] = cell
                     /\ display'[k] = display[k]
                ELSE cell # deck_state.key_states[k] =>
                        /\ deck_state'.key_states[k] = cell
                        /\ display'[k] = ClipImage(cell, k, {}, current_config.scroll_mode,
                                                   deck_state.menu_active)]_vars

\* C14 as stated: from a press of a key until FLASH_DURATION later the key
\* shows the flash image, whatever else happens in between.
C14_AsStated ==
    \A k \in Keys :
        (key_hist.press_time[k] # 0 /\ now < key_hist.press_time[k] + FLASH_DURATION)
            => display[k].flash

\* C15 as stated: every release is owed one restore of its key, at the
\* release if the flash of the key's last press is over and at the end of
\* that flash if it is not; no time passes beyond the moment a restore is
\* owed without the restore having run.
C15_AsStated ==
    \A i \in DOMAIN key_hist.owed : key_hist.owed[i][2] >= now

(***************************************************************************)
(* Properties of the stop indicator                                         *)
(***************************************************************************)
\* The label and the colour a key shows when it is rendered from entry.
ShownFrom(entry) ==
    IF entry = NoState THEN <<"", Black>>
    ELSE <<entry[1], AbletonColorToRgb(entry[2])>>

\* C16 as stated: when the restore of a stop indicator has run for a key,
\* the key shows the label and the colour of the entry the cache holds for
\* it at that moment.
C16_AsStated ==
    (hw_last.op = "timer" /\ hw_last.arg[1] = "stop" /\ hw_last.arg[2] \in Keys) =>
        LET k == hw_last.arg[2]
        IN  <<display[k].label_text, display[k].color>>
                = ShownFrom(deck_state.key_states[k])

\* A key whose stop indicator has time left is in the stop-indicator set,
\* and a key in the set has a restore ahead.
StopKept ==
    \A i \in DOMAIN timers :
        (timers[i].kind = "stop" /\ timers[i].due > now)
            => timers[i].key \in deck_state.stopped_keys
StopLeft ==
    \A k \in deck_state.stopped_keys :
        \E i \in DOMAIN timers :
            timers[i].kind = "stop" /\ timers[i].key = k /\ timers[i].due >= now

\* C17 as stated: a /track_stopped for track t puts exactly the keys t, t+8,
\* t+16, t+24 into the stop-indicator set and renders them on the stop
\* colour; each stays in the set for the event's 4.0 s or 0.5 s and leaves it
\* then; nothing else changes the set.
C17_AsStated ==
    [][/\ hw_last'.op = "track_stopped" =>
            LET four == StoppedKeysOf(hw_last'.arg[1])
            IN  /\ deck_state'.stopped_keys = deck_state.stopped_keys \cup four
                /\ \A k \in four : display'[k].background_color = Red
                /\ \A i \in Len(timers) + 1 .. Len(timers') :
                      timers'[i].due = now + (IF hw_last'.arg[2] = 1 THEN StopTimePlaying
                                              ELSE StopTimeIdle)
       /\ deck_state'.stopped_keys # deck_state.stopped_keys
            => hw_last'.op \in {"track_stopped", "timer"}
       /\ StopKept'
       /\ StopLeft']_vars

(***************************************************************************)
(* Properties of the device aggregator                                      *)
(***************************************************************************)
\* C18 as stated: after /document_closing the window's cache is empty and
\* its liveness record is as at start: no heartbeat time and offline.
C18_AsStated ==
    hw_last.op = "document_closing" =>
        /\ \A k \in Keys : deck_state.key_states[k] = NoState
        /\ deck_state.last_ablonline = InitDeckState.last_ablonline
        /\ deck_state.ableton_offline = InitDeckState.ableton_offline

\* C19 as stated: a message for an order without a unit, of any kind, makes
\* no state record, changes no record, renders nothing and sends nothing.
C19_AsStated ==
    [][hw_last'.op = "stray" =>
        /\ DOMAIN stray_states' = DOMAIN stray_states
        /\ stray_states' = stray_states
        /\ deck_state' = deck_state
        /\ display' = display
        /\ hw_out' = <<>>]_vars

(***************************************************************************)
(* Properties of the menu                                                   *)
(***************************************************************************)
ArrowKeys == {KEY_ARROW_UP, KEY_ARROW_DOWN, KEY_ARROW_LEFT, KEY_ARROW_RIGHT}
Scrolls(out) == {i \in DOMAIN out : out[i].address = "/scroll"}
Triggered(out) == {out[i].args : i \in {j \in DOMAIN out : out[j].address = "/trigger_clip"}}

\* C20: in the layouts both and both-reset a round of poll_keys sends /scroll
\* only with the menu open, and then one for each arrow key just pressed; with
\* the menu closed a pressed arrow key triggers its clip instead.  The
\* brightness level changes only in a round that finds the brightness key
\* released with the menu open, and in no other step.  The menu is open or
\* closed as the round's own look at the burger key leaves it.
C20_MenuGatesKeys ==
    [][/\ current_config.scroll_mode \in {SCROLL_BOTH, SCROLL_BOTH_RESET}
       /\ (hw_last'.op = "poll" =>
            LET previous == poll.previous_key_states
                pressed == poll'.previous_key_states \ previous
                released == previous \ poll'.previous_key_states
            IN  /\ Scrolls(hw_out') # {} => deck_state'.menu_active
                /\ Cardinality(Scrolls(hw_out')) =
                     IF deck_state'.menu_active
                     THEN Cardinality(pressed \cap ArrowKeys) ELSE 0
                /\ ~deck_state'.menu_active =>
                     \A key \in pressed \cap ArrowKeys :
                        <<key % 8, key \div 8>> \in Triggered(hw_out')
                /\ current_config'.current_brightness # current_config.current_brightness
                     => deck_state'.menu_active /\ KEY_BRIGHTNESS \in released)
       /\ (hw_last'.op # "poll" =>
            /\ Scrolls(hw_out') = {}
            /\ current_config' = current_config)]_vars

\* An arrow key scrolled with the menu open, after the brightness key had
\* raised the level there.
C20_Witness ==
    /\ hw_last.op = "poll"
    /\ deck_state.menu_active
    /\ Scrolls(hw_out) # {}
    /\ current_config.current_brightness # current_config.brightness

BrightnessReleased ==
    /\ hw_last'.op = "poll"
    /\ KEY_BRIGHTNESS \in poll.previous_key_states \ poll'.previous_key_states
    /\ KEY_BURGER \in poll'.previous_key_states
    /\ key_hist.bright # None
HeldFor == now - key_hist.bright[1]
AllUnitsAt(units, level) == \A order \in ActiveOrders : units[order] = level * 10

C24_HandshakeCompletes ==
    (<>cs.config_received) /\ (<>~deck_state.ableton_offline)

\* The session side has taken a /config of the periodic push and the window
\* is online, a request of the session side still on its way.
C24_Witness ==
    /\ cs.config_received
    /\ ~deck_state.ableton_offline
    /\ last.op = "config" /\ Len(last.arg) = 3
    /\ \E m \in link.to_hw : m.type = "/config_request"

\* C25 as stated: once a /config for its order has been accepted the request
\* thread sends no /config_request any more, whatever the interleaving with
\* the /config handler; until then, and while running, every round of its
\* loop sends one.
C25_AsStated ==
    [][/\ (hist.accepted /\ link.request = "send") => link'.request = "send"
       /\ (link.request = "test" /\ link'.request # "test") =>
            (link'.request = "send") = (link.running /\ ~hist.accepted)]_vars

\* C26 as stated: every /config of the hardware side, the periodic one and
\* the reply to a /config_request, carries the order, the configured offset
\* and the debug flag, so that a session side that has accepted a /config
\* has the hardware side's debug_mode.
C26_AsStated ==
    /\ \A m \in link.to_cs :
          m.address = "/config" =>
             m.args = <<DEFAULT_DISPLAY_ORDER, ConfiguredOffset, BoolInt(link.debug_mode)>>
    /\ hist.accepted => cs.debug_mode = link.debug_mode

(***************************************************************************)
(* Properties of the heartbeat                                              *)
(***************************************************************************)
\* The kinds of message whose receipt the hardware side takes as a sign of
\* life, and what the session side sends in one interval of the announcer:
\* one round of the announcer and, if the poller is past its guards, a pass
\* of the poller.
HeartbeatKinds == {"/ablonline", "/clip_info"}
IntervalSends(c, sg, is_playing) ==
    AnnounceOnce(Begin(c), is_playing).osc_out
        \o (IF c.initialized /\ c.song_loaded
            THEN PrepareAndSendClipInfo(Begin(c), sg).osc_out ELSE <<>>)
Heartbeats(c, sg, is_playing) ==
    {i \in DOMAIN IntervalSends(c, sg, is_playing) :
        IntervalSends(c, sg, is_playing)[i].type \in HeartbeatKinds}

\* C27 as stated: in every state of the running session side, the host
\* playing or paused, an interval of the announcer sees at least one
\* heartbeat-bearing message sent.
C27_AsStated ==
    \A is_playing \in BOOLEAN : Heartbeats(cs, song, is_playing) # {}

\* C28 as stated: once the hardware side has processed a /clip_info, every
\* key that is neither held nor flashing shows the image of the snapshot's
\* cell for it (which is then the key's cache entry), whatever it showed
\* before and also when the cell equals the entry cached before.
C28_AsStated ==
    hw_last.op = "clip_info" =>
        \A k \in Keys :
            \/ KeyIsFlashing(deck_state, now, k)
            \/ display[k] = ClipImage(deck_state.key_states[k], k, {},
                                      current_config.scroll_mode,
                                      deck_state.menu_active)

\* C29 as stated: a /clip_info with a cell that is not label|int|number, or
\* a message with too few arguments, is dropped as a whole: no cache entry,
\* no liveness field and no key image changes.
C29_AsStated ==
    [][hw_last'.op \in {"malformed_clip_info", "truncated"} =>
          /\ deck_state' = deck_state
          /\ display' = display]_vars

(***************************************************************************)
(* Properties of the wait for the host                                      *)
(***************************************************************************)
\* C30: a call of _wait_for_live always ends; it returns at the first check
\* that succeeds, after the 100th failed check in a row it raises instead of
\* checking again, and it never makes more than 100 checks.
C30_WaitIsBounded ==
    /\ [](wait.checks <= max_retries)
    /\ [](wait.ready <=> wait.pc = "returned")
    /\ [](wait.pc = "raised" => wait.checks = max_retries)
    /\ [][(wait.pc = "failed" /\ wait.checks = max_retries) => wait'.pc = "raised"]_vars
    /\ (wait.pc \notin WaitDone) ~> (wait.pc \in {"returned", "raised"})

\* The hundredth check has failed and the call has raised.
C30_Witness ==
    /\ wait.pc = "raised"
    /\ wait.checks = max_retries
    /\ ~wait.ready

(***************************************************************************)
(* Properties of the cache of key states                                    *)
(***************************************************************************)
\* The entry a /clip_info cell leaves in the cache.
EntryOf(info) == <<info.label, info.color, info.code>>

C32_AsStated ==
    [][~(last'.op = "config_assign" /\ handlers.scrolled)]_vars

\* C33 as stated: every snapshot sent is the snapshot of one window
\* position: its 32 cells and the flags of its tracks are those of one and
\* the same pair (h_offset, v_offset), whatever /scroll was handled while it
\* was put together.
C33_AsStated ==
    last.op = "snap_send" =>
        \E w \in DemoWindows :
            /\ \A i \in 1 .. NumScenes * NumTracks :
                  handlers.snap.clip_info[i] = ClipInfoList(w, song)[i]
            /\ \A i \in 0 .. NumTracks - 1 :
                  handlers.snap.track_is_playing[i + 1] = TrackIsPlayingTable(w, song)[i]

(***************************************************************************)
(* Properties of the structural mismatch                                    *)
(***************************************************************************)
WrongChannelImage == Image("Wrong Channel Number", <<255, 125, 0>>, None, None)

\* C34 as stated: while the window stays structurally invalid and the
\* transport, though lossy, is fair, the hardware side's flag becomes true
\* and the wrong-channel indicator comes up on key 0, the host playing or
\* paused, the first /structural_mismatch lost or not.
C34_AsStated ==
    <>(deck_state.structural_mismatch /\ display[0] = WrongChannelImage)

(***************************************************************************)
(* Properties of /trigger_clip                                              *)
(***************************************************************************)
\* The /track_stopped messages among those a handler sent.
TrackStops(out) == {i \in DOMAIN out : out[i].type = "/track_stopped"}

\* C35: /trigger_clip(t, s) on a slot inside the session that holds a clip
\* fires that clip and sends no /track_stopped; on an empty slot inside the
\* session it stops the track's clips and sends exactly one /track_stopped
\* with t and with the flag 1 exactly if a slot of the track was playing or
\* triggered; on a slot outside the session it changes nothing and sends
\* nothing.
C35_TriggerEffects ==
    [][last'.op = "trigger_clip" =>
          LET t == last'.arg[1]
              s == last'.arg[2]
              track == cs.h_offset + t
              scene == cs.v_offset + s
              inside == /\ 0 <= track /\ track < song.tracks
                        /\ 0 <= scene /\ scene < song.scenes
              stops == TrackStops(cs'.osc_out)
          IN  IF inside /\ ClipSlot(song, track, scene).has_clip
              THEN /\ cs'.host_out = <<[call |-> "fire", track |-> track, scene |-> scene]>>
                   /\ stops = {}
              ELSE IF inside
              THEN /\ cs'.host_out = <<[call |-> "stop_all_clips", track |-> track,
                                        scene |-> 0]>>
                   /\ Cardinality(stops) = 1
                   /\ \A i \in stops :
                         /\ cs'.osc_out[i].order = DEFAULT_DISPLAY_ORDER
                         /\ cs'.osc_out[i].a = t
                         /\ cs'.osc_out[i].b = 1 <=> TrackIsPlaying(song, track)
                         /\ cs'.osc_out[i].b \in {0, 1}
              ELSE cs' = Begin(cs)]_vars

\* An empty slot of a track with a playing or triggered clip was triggered.
C35_Witness ==
    /\ last.op = "trigger_clip"
    /\ \E i \in TrackStops(cs.osc_out) : cs.osc_out[i].b = 1

\* Whether a cell of the snapshot is the description of slot (t, s) of the
\* session: the marker of a slot outside the session, the blank of an empty
\* slot, or the name and colour of the slot's clip with a code of its state.
DescribesSlot(cell, sg, t, s) ==
    IF t >= sg.tracks \/ s >= sg.scenes
    THEN cell.code = -4
    ELSE LET slot == ClipSlot(sg, t, s)
         IN  /\ cell.label = slot.name
             /\ cell.color = slot.color
             /\ cell.code # -4
             /\ (cell.code >= 1) <=> (slot.has_clip /\ slot.is_playing)

\* C36: the /trigger_clip a pressed key k sends carries (k mod 8, k div 8),
\* always a column in 0..7 and a row in 0..3, and what the session side then
\* fires or stops is the slot (h_offset + k mod 8, v_offset + k div 8), the
\* one cell k of the window's snapshot describes.
C36_KeyAddressesItsCell ==
    [][/\ \A i \in DOMAIN hw_out' :
             hw_out'[i].address = "/trigger_clip" =>
                /\ hw_out'[i].args[1] \in 0 .. 7
                /\ hw_out'[i].args[2] \in 0 .. 3
                /\ hw_last'.op = "poll" =>
                      /\ hw_out'[i].args[1] = hw_last'.arg[1] % 8
                      /\ hw_out'[i].args[2] = hw_last'.arg[1] \div 8
       /\ (last'.op = "trigger_clip" /\ hw_last' = hw_last /\ hw_last.op = "poll") =>
             LET k == hw_last.arg[1]
                 track == cs.h_offset + (k % 8)
                 scene == cs.v_offset + (k \div 8)
                 cell == ClipInfoList([h_offset |-> cs.h_offset,
                                       v_offset |-> cs.v_offset], song)[k + 1]
             IN  /\ DescribesSlot(cell, song, track, scene)
                 /\ \A j \in DOMAIN cs'.host_out :
                       /\ cs'.host_out[j].track = track
                       /\ cs'.host_out[j].call = "fire" =>
                             /\ cs'.host_out[j].scene = scene
                             /\ cell.label = "clip"
                 /\ (cs'.host_out = <<>>) <=> (cell.code = -4)]_vars

\* Key 10 was pressed and the clip of its cell fired.
C36_Witness ==
    /\ last.op = "trigger_clip"
    /\ hw_last.op = "poll" /\ hw_last.arg = <<10, 1>>
    /\ cs.host_out # <<>> /\ cs.host_out[1].call = "fire"

(***************************************************************************)
(* Properties of the guards of the snapshot                                 *)
(***************************************************************************)
\* The /clip_info messages among those a handler sent.
ClipInfosSent(out) == {i \in DOMAIN out : out[i].type = "/clip_info"}

\* C37: whatever asks for a snapshot (poller, /scroll, /trigger_clip,
\* /refresh, a change of the song, a reload), no /clip_info is sent before a
\* config was accepted, and none for a window whose h_offset is at or past
\* the number of tracks.
C37_SnapshotGuards ==
    \A i \in ClipInfosSent(cs.osc_out) :
        /\ hist.accepted
        /\ cs.config_received
        /\ cs.osc_out[i].a = cs.h_offset
        /\ cs.h_offset < song.tracks

\* The poller asked for a snapshot of a configured window without a track and
\* none was sent.
C37_Witness ==
    /\ last.op = "poll_clips"
    /\ cs.config_received
    /\ cs.h_offset >= song.tracks
    /\ ClipInfosSent(cs.osc_out) = {}

(***************************************************************************)
(* Properties of a press and its release                                    *)
(***************************************************************************)
\* C38: each press of a key is processed once: while the key is down it has
\* sent at most one command, however many rounds of poll_keys it is held for
\* and whether or not a round raised, and once a round has completed the keys
\* recorded as pressed are the keys that are down, so that every release was
\* processed after its press.
C38_AsStated ==
    /\ \A key \in Keys : key_hist.commands[key] <= 1
    /\ hw_last.op = "poll" => deck_state.pressed_keys = key_hist.down

(***************************************************************************)
(* Properties of the direction of a scroll                                  *)
(***************************************************************************)
\* C39: a scroll never moves the window against its direction nor by more
\* than its step: right never decreases h_offset and left never increases it,
\* down never decreases v_offset and up never increases it, each leaves the
\* other axis alone and moves its own by at most 1, or 4 with -fast.
C39_AsStated ==
    [][last'.op = "scroll" =>
          LET direction == ScrollDirection(last'.arg)
              step == ScrollStep(last'.arg)
              dh == cs'.h_offset - cs.h_offset
              dv == cs'.v_offset - cs.v_offset
          IN  /\ direction = <<"right">> => dv = 0 /\ dh >= 0 /\ dh <= step
              /\ direction = <<"left">> => dv = 0 /\ dh <= 0 /\ dh >= -step
              /\ direction = <<"down">> => dh = 0 /\ dv >= 0 /\ dv <= step
              /\ direction = <<"up">> => dh = 0 /\ dv <= 0 /\ dv >= -step]_vars

====
